---- MODULE Spec2Model ----
(***************************************************************************)
(* OpenAPI-SpecMaster-MCP: the OpenAPI parser (utils/openapi-parser.ts,    *)
(* here src/unnamed/part_001) and the stdio tool server (mcp/server.ts,    *)
(* here src/unnamed/part_000) as a state machine.                          *)
(*                                                                         *)
(* Strings the code processes character by character (paths, summaries,   *)
(* tags, parameter names, method names, version strings) are sequences of  *)
(* one-character strings.  A $ref is the sequence of the segments that     *)
(* '$ref'.split('/') yields.  A JavaScript object with optional members is *)
(* a record whose optional members are sequences of length 0 or 1, or the  *)
(* empty string/sequence where the code only tests truthiness.             *)
(*                                                                         *)
(* Every record constructor lists its members in the order in which their  *)
(* names first occur in this module.  That is the order in which TLC keeps *)
(* the members of a record, so a record is in normal form as it is built   *)
(* and stays untouched when several workers read it.                       *)
(***************************************************************************)
EXTENDS Integers, Sequences, FiniteSets, TLC

VARIABLES parserSpec, currentSpec, currentEndpoints, successfulLoads, lastTool, lastArgs, lastResult, pending

vars == <<parserSpec, currentSpec, currentEndpoints, successfulLoads, lastTool, lastArgs, lastResult, pending>>

session == <<parserSpec, currentSpec, currentEndpoints>>

(***************************************************************************)
(* Bounds of the model.                                                    *)
(***************************************************************************)
MaxOpParams == 6

MaxPathParams == 1

MaxResponses == 5

MaxPaths == 2

\* The successful loads of a session that are counted.
MaxLoads == 2

(***************************************************************************)
(* Strings.                                                                *)
(***************************************************************************)
UpperCase == <<"A","B","C","D","E","F","G","H","I","J","K","L","M","N","O","P","Q","R","S","T","U","V","W","X","Y","Z">>

LowerCase == <<"a","b","c","d","e","f","g","h","i","j","k","l","m","n","o","p","q","r","s","t","u","v","w","x","y","z">>

Digits == {"0","1","2","3","4","5","6","7","8","9"}

Range(s) == {s[i] : i \in DOMAIN s}

\* The letter pairs, as tables from one case to the other.
LowerTable == [c \in Range(UpperCase) |-> LowerCase[CHOOSE i \in DOMAIN UpperCase : UpperCase[i] = c]]

UpperTable == [c \in Range(LowerCase) |-> UpperCase[CHOOSE i \in DOMAIN LowerCase : LowerCase[i] = c]]

LowerOf(c) == IF c \in DOMAIN LowerTable THEN LowerTable[c] ELSE c

UpperOf(c) == IF c \in DOMAIN UpperTable THEN UpperTable[c] ELSE c

toLowerCase(s) == [i \in DOMAIN s |-> LowerOf(s[i])]

toUpperCase(s) == [i \in DOMAIN s |-> UpperOf(s[i])]

IsAlnum(c) == c \in Range(UpperCase) \cup Range(LowerCase) \cup Digits

\* String.prototype.includes
includes(hay, needle) == \E i \in 0..(Len(hay) - Len(needle)) : SubSeq(hay, i + 1, i + Len(needle)) = needle

\* String.prototype.startsWith
startsWith(s, prefix) == Len(s) >= Len(prefix) /\ SubSeq(s, 1, Len(prefix)) = prefix

\* path.replace(/[^a-zA-Z0-9]/g, '_')
replaceNonAlnum(s) == [i \in DOMAIN s |-> IF IsAlnum(s[i]) THEN s[i] ELSE "_"]

\* Array.prototype.some / Array.prototype.includes on a sequence
some(seq, P(_)) == \E i \in DOMAIN seq : P(seq[i])

has(seq, x) == \E i \in DOMAIN seq : seq[i] = x

\* The({e(x) : x \in {v}}) is e(x) for x = v, with v evaluated once.
The(S) == CHOOSE x \in S : TRUE

K_get == <<"g","e","t">>

K_list == <<"l","i","s","t">>

K_search == <<"s","e","a","r","c","h">>

K_filter == <<"f","i","l","t","e","r">>

K_create == <<"c","r","e","a","t","e">>

K_add == <<"a","d","d">>

K_fetch == <<"f","e","t","c","h">>

K_update == <<"u","p","d","a","t","e">>

K_modify == <<"m","o","d","i","f","y">>

K_delete == <<"d","e","l","e","t","e">>

K_remove == <<"r","e","m","o","v","e">>

K_limit == <<"l","i","m","i","t">>

K_idPlaceholder == <<"{","i","d","}">>

K_post == <<"p","o","s","t">>

K_put == <<"p","u","t">>

K_patch == <<"p","a","t","c","h">>

K_options == <<"o","p","t","i","o","n","s">>

K_head == <<"h","e","a","d">>

K_trace == <<"t","r","a","c","e">>

(***************************************************************************)
(* The document model (types/openapi.ts).                                  *)
(***************************************************************************)
\* A $ref string, split at '/'.  The empty sequence stands for "no $ref".
NoRef == <<>>

SchemaRef(name) == <<"#", "components", "schemas", name>>

ResponseRef(name) == <<"#", "components", "responses", name>>

ParameterRef(name) == <<"#", "components", "parameters", name>>

DefinitionRef(name) == <<"#", "definitions", name>>

\* Schema | Reference.  items holds 0 or 1 node, minimum and maximum 0 or 1
\* integer.
EmptySchema == [ref |-> NoRef, type |-> "", properties |-> <<>>, required |-> <<>>, items |-> <<>>, allOf |-> <<>>, oneOf |-> <<>>, anyOf |-> <<>>, minimum |-> <<>>, maximum |-> <<>>]

NumberSchema(t, minimum, maximum) == [EmptySchema EXCEPT !.type = t, !.minimum = minimum, !.maximum = maximum]

RefSchema(r) == [EmptySchema EXCEPT !.ref = r]

TypeSchema(t) == [EmptySchema EXCEPT !.type = t]

ObjectSchema(props, req) == [EmptySchema EXCEPT !.type = "object", !.properties = props, !.required = req]

ArraySchema(item) == [EmptySchema EXCEPT !.type = "array", !.items = <<item>>]

\* One entry of a name -> value object, in insertion order.
Entry(name, value) == [name |-> name, value |-> value]

Keys(obj) == {obj[i].name : i \in DOMAIN obj}

HasKey(obj, name) == \E i \in DOMAIN obj : obj[i].name = name

Lookup(obj, name) == obj[CHOOSE i \in DOMAIN obj : obj[i].name = name].value

\* obj[name] = value: an existing key keeps its place.
Assign(obj, name, value) == IF HasKey(obj, name) THEN [i \in DOMAIN obj |-> IF obj[i].name = name THEN Entry(name, value) ELSE obj[i]] ELSE Append(obj, Entry(name, value))

\* MediaType, as an entry of a content object.
MediaType(mediaType, schema) == Entry(mediaType, [schema |-> schema, example |-> <<>>])

\* A JSON value, as far as an example is inspected: what typeof and
\* Array.isArray say of it (kind), the length of a string or the value of a
\* number (size), and the entries of an object or an array (members).
JsonNull == [kind |-> "null", size |-> 0, members |-> <<>>]

JsonString(length) == [kind |-> "string", size |-> length, members |-> <<>>]

JsonNumber(n) == [kind |-> "number", size |-> n, members |-> <<>>]

JsonObject(members) == [kind |-> "object", size |-> Len(members), members |-> members]

IndexName(i) == <<ToString(i - 1)>>

JsonArray(items) == [kind |-> "array", size |-> Len(items), members |-> [i \in DOMAIN items |-> Entry(IndexName(i), items[i])]]

\* !example is false
truthy(example) == CASE example.kind = "null" -> FALSE [] example.kind \in {"string", "number"} -> example.size # 0 [] OTHER -> TRUE

\* Object.entries(example)
objectEntries(example) == IF example.kind = "string" THEN [i \in 1..example.size |-> Entry(IndexName(i), JsonString(1))] ELSE example.members

MediaTypeWithExample(mediaType, schema, example) == Entry(mediaType, [schema |-> <<schema>>, example |-> <<example>>])

\* Parameter | Reference.  in is "body" or "formData" only in Swagger 2.
Parameter(name, in) == [name |-> name, ref |-> NoRef, type |-> "string", schema |-> <<>>, in |-> in]

BodyParameter(name, schema) == [name |-> name, ref |-> NoRef, type |-> "", schema |-> <<schema>>, in |-> "body"]

RefParameter(r) == [name |-> <<>>, ref |-> r, type |-> "", schema |-> <<>>, in |-> ""]

\* RequestBody | Reference.
RequestBody(content) == [ref |-> NoRef, content |-> content]

\* Response | Reference, as an entry of a responses object.  schema is the
\* Swagger 2 member, content the OpenAPI 3 one.
Response(code, content) == Entry(code, [ref |-> NoRef, schema |-> <<>>, content |-> content])

RefResponse(code, r) == Entry(code, [ref |-> r, schema |-> <<>>, content |-> <<>>])

Swagger2Response(code, schema) == Entry(code, [ref |-> NoRef, schema |-> schema, content |-> <<>>])

\* Operation.  responses holds 0 or 1 responses object, requestBody 0 or 1
\* request body; an absent string or list is the empty one.
Operation(summary, tags, parameters, requestBody, responses, security) == [summary |-> summary, tags |-> tags, parameters |-> parameters, requestBody |-> requestBody, responses |-> responses, security |-> security, description |-> <<>>, operationId |-> <<>>, deprecated |-> FALSE]

\* PathItem: its operations by method name, and its parameters.
PathItem(parameters, operations) == [parameters |-> parameters, operations |-> operations]

Info(title, version) == [title |-> title, version |-> version]

\* Components: schemas holds 0 or 1 schemas object.
Components(schemas, responses) == [responses |-> responses, schemas |-> schemas]

\* The value JSON.parse / yaml.load yields: a falsy value (null, undefined,
\* 0, ""), a truthy value that is no document (a number, a string, an
\* array), or an object.  paths, info, components and definitions hold 0 or
\* 1 value; tags holds the names of the document's tag objects.
NullSpec == [kind |-> "null"]

ScalarSpec == [kind |-> "scalar"]

Document(swagger, openapi, info, paths, components, definitions) == [kind |-> "doc", tags |-> <<>>, swagger |-> swagger, openapi |-> openapi, info |-> info, paths |-> paths, components |-> components, definitions |-> definitions]

V_2_0 == <<"2", ".", "0">>

V_1_2 == <<"1", ".", "2">>

V_3_0_0 == <<"3", ".", "0", ".", "0">>

V_3_0_3 == <<"3", ".", "0", ".", "3">>

\* The text given to load_openapi_spec, by what the parsers make of it.
\* parse is "error" when neither JSON.parse nor yaml.load accepts the text.
Source(parse, value) == [value |-> value, parse |-> parse]

(***************************************************************************)
(* OpenAPIParser: the Swagger 2.0 -> OpenAPI 3.0 conversion.               *)
(* An operator that models a function which can throw yields a record      *)
(* [threw, value].                                                         *)
(***************************************************************************)
Swagger2Methods == <<K_get, K_post, K_put, K_delete, K_patch, K_options, K_head>>

\* schema.$ref.replace('#/definitions/', ''), on the segments of the $ref:
\* the first '#', 'definitions' pair that another segment follows is removed.
stripDefinitions(ref) == LET hits == {i \in 1..(Len(ref) - 2) : ref[i] = "#" /\ ref[i + 1] = "definitions"} IN IF hits = {} THEN ref ELSE LET i == CHOOSE j \in hits : \A k \in hits : j <= k IN SubSeq(ref, 1, i - 1) \o SubSeq(ref, i + 2, Len(ref))

RECURSIVE convertSwagger2Schema(_)

convertSwagger2Schema(schema) == IF schema.ref # NoRef THEN RefSchema(<<"#", "components", "schemas">> \o stripDefinitions(schema.ref)) ELSE [ref |-> NoRef, type |-> schema.type, properties |-> [i \in DOMAIN schema.properties |-> Entry(schema.properties[i].name, convertSwagger2Schema(schema.properties[i].value))], required |-> schema.required, items |-> [i \in DOMAIN schema.items |-> convertSwagger2Schema(schema.items[i])], allOf |-> [i \in DOMAIN schema.allOf |-> convertSwagger2Schema(schema.allOf[i])], oneOf |-> <<>>, anyOf |-> <<>>, minimum |-> <<>>, maximum |-> <<>>]

\* The same on an optional schema: "if (!schema) return {}".
convertSwagger2SchemaOpt(schema) == IF schema = <<>> THEN EmptySchema ELSE convertSwagger2Schema(schema[1])

convertSwagger2Definitions(definitions) == [i \in DOMAIN definitions |-> Entry(definitions[i].name, convertSwagger2Schema(definitions[i].value))]

convertSwagger2Parameter(param) == [name |-> param.name, ref |-> NoRef, type |-> "", schema |-> IF param.schema # <<>> THEN <<convertSwagger2Schema(param.schema[1])>> ELSE <<TypeSchema(param.type)>>, in |-> param.in]

convertSwagger2Response(response) == [ref |-> NoRef, schema |-> <<>>, content |-> IF response.schema # <<>> THEN <<MediaType("application/json", <<convertSwagger2Schema(response.schema[1])>>)>> ELSE <<>>]

FormMediaType == "application/x-www-form-urlencoded"

\* One turn of operation.parameters.forEach in convertSwagger2Operation.
\* acc = [params, body, threw]; a formData parameter after a body parameter
\* reads content[FormMediaType] of the JSON request body and throws.
convertSwagger2OperationParam(acc, param) == IF acc.threw THEN acc ELSE IF param.in = "body" THEN [acc EXCEPT !.body = <<RequestBody(<<MediaType("application/json", <<convertSwagger2SchemaOpt(param.schema)>>)>>)>>] ELSE IF param.in = "formData" THEN The({IF ~HasKey(body.content, FormMediaType) THEN [acc EXCEPT !.threw = TRUE] ELSE The({[acc EXCEPT !.body = <<RequestBody(Assign(body.content, FormMediaType, [schema |-> <<[form EXCEPT !.properties = Assign(form.properties, param.name, TypeSchema(param.type))]>>, example |-> <<>>]))>>] : form \in {Lookup(body.content, FormMediaType).schema[1]}}) : body \in {IF acc.body = <<>> THEN RequestBody(<<MediaType(FormMediaType, <<ObjectSchema(<<>>, <<>>)>>)>>) ELSE acc.body[1]}}) ELSE [acc EXCEPT !.params = Append(acc.params, convertSwagger2Parameter(param))]

RECURSIVE convertSwagger2OperationParams(_, _)

convertSwagger2OperationParams(acc, params) == IF params = <<>> THEN acc ELSE convertSwagger2OperationParams(convertSwagger2OperationParam(acc, Head(params)), Tail(params))

convertSwagger2Operation(operation) == The({[value |-> [summary |-> operation.summary, tags |-> operation.tags, parameters |-> acc.params, requestBody |-> acc.body, responses |-> <<IF operation.responses = <<>> THEN <<>> ELSE [i \in DOMAIN operation.responses[1] |-> Entry(operation.responses[1][i].name, convertSwagger2Response(operation.responses[1][i].value))]>>, security |-> <<>>, description |-> operation.description, operationId |-> operation.operationId, deprecated |-> operation.deprecated], threw |-> acc.threw] : acc \in {convertSwagger2OperationParams([threw |-> FALSE, body |-> <<>>, params |-> <<>>], operation.parameters)}})

\* The operations of one converted path item, in the order of the method list.
RECURSIVE convertSwagger2PathOperations(_, _)

convertSwagger2PathOperations(pathItem, methods) == IF methods = <<>> THEN [value |-> <<>>, threw |-> FALSE] ELSE The({IF ~HasKey(pathItem.operations, Head(methods)) THEN rest ELSE The({[value |-> <<Entry(Head(methods), op.value)>> \o rest.value, threw |-> op.threw \/ rest.threw] : op \in {convertSwagger2Operation(Lookup(pathItem.operations, Head(methods)))}}) : rest \in {convertSwagger2PathOperations(pathItem, Tail(methods))}})

convertSwagger2PathItem(pathItem) == The({[value |-> PathItem([i \in DOMAIN pathItem.parameters |-> convertSwagger2Parameter(pathItem.parameters[i])], ops.value), threw |-> ops.threw] : ops \in {convertSwagger2PathOperations(pathItem, Swagger2Methods)}})

T_API == <<"A", "P", "I">>

V_1_0_0 == <<"1", ".", "0", ".", "0">>

convertSwagger2ToOpenAPI3(swagger2) == The({The({[value |-> [Document(<<>>, V_3_0_0, <<Info(IF swagger2.info # <<>> /\ swagger2.info[1].title # <<>> THEN swagger2.info[1].title ELSE T_API, IF swagger2.info # <<>> /\ swagger2.info[1].version # <<>> THEN swagger2.info[1].version ELSE V_1_0_0)>>, <<[i \in DOMAIN paths |-> Entry(paths[i].name, items[i].value)]>>, IF swagger2.definitions # <<>> THEN <<Components(<<convertSwagger2Definitions(swagger2.definitions[1])>>, <<>>)>> ELSE <<>>, <<>>) EXCEPT !.tags = swagger2.tags], threw |-> \E i \in DOMAIN items : items[i].threw] : items \in {[i \in DOMAIN paths |-> convertSwagger2PathItem(paths[i].value)]}}) : paths \in {IF swagger2.paths = <<>> THEN <<>> ELSE swagger2.paths[1]}})

(***************************************************************************)
(* OpenAPIParser.parseFromText / parseFromUrl.  prev is this.spec before   *)
(* the call; the result carries this.spec after it, whether the call threw *)
(* and, when it did not, the returned document (which is this.spec).       *)
(***************************************************************************)
swaggerOf(v) == IF v.kind = "doc" THEN v.swagger ELSE <<>>

openapiOf(v) == IF v.kind = "doc" THEN v.openapi ELSE <<>>

\* Lines 20-31 and 69-80: the checks after this.spec has been assigned.
checkAndConvert(parsed) == IF parsed.kind = "null" THEN [threw |-> TRUE, spec |-> parsed] ELSE IF swaggerOf(parsed) # <<>> /\ startsWith(swaggerOf(parsed), <<"2", ".">>) THEN The({IF converted.threw THEN [threw |-> TRUE, spec |-> parsed] ELSE [threw |-> FALSE, spec |-> converted.value] : converted \in {convertSwagger2ToOpenAPI3(parsed)}}) ELSE IF openapiOf(parsed) = <<>> THEN [threw |-> TRUE, spec |-> parsed] ELSE [threw |-> FALSE, spec |-> parsed]

parseFromText(prev, content) == IF content.parse = "error" THEN [threw |-> TRUE, spec |-> prev] ELSE checkAndConvert(content.value)

\* fetched = [fetch, parse, value]: fetch is "failed" (fetch rejects),
\* "notOk" (a non-2xx answer) or "ok"; parse is what JSON.parse or yaml.load,
\* whichever the content type and first character select, makes of the body.
parseFromUrl(prev, fetched) == IF fetched.fetch # "ok" \/ fetched.parse = "error" THEN [threw |-> TRUE, spec |-> prev] ELSE checkAndConvert(fetched.value)

(***************************************************************************)
(* OpenAPIParser.extractEndpoints and the derived fields.                  *)
(***************************************************************************)
\* The methods in the order of their names.
MethodsByName == <<K_delete, K_get, K_head, K_options, K_patch, K_post, K_put, K_trace>>

Methods == <<K_get, K_post, K_put, K_delete, K_patch, K_options, K_head, K_trace>>

\* [...pathParams, ...operationParams]; a Reference is kept as it is.
\* A merge that dropped the parameters of the path item.
extractParametersOfOperation(operationParams, pathParams) == operationParams

extractParameters(operationParams, pathParams) == pathParams \o operationParams

\* Object.keys(operation.responses || {})
responseTypesOf(operation) == IF operation.responses = <<>> THEN <<>> ELSE [i \in DOMAIN operation.responses[1] |-> operation.responses[1][i].name]

\* The score of calculateComplexity times 10 (0.5 -> 5, 2 -> 20, 0.3 -> 3,
\* 1 -> 10): for these addends the IEEE-754 double sum compares with 2 and
\* with 5 exactly as the rational sum does.
complexityScore10(operation, parameters, hasRequestBody) == Len(parameters) * 5 + (IF hasRequestBody THEN 20 ELSE 0) + Len(responseTypesOf(operation)) * 3 + (IF Len(operation.security) > 0 THEN 10 ELSE 0) + (IF Len(operation.tags) > 1 THEN 5 ELSE 0)

\* Thresholds that exclude their bound.
classifyComplexityBelow(score10) == IF score10 < 20 THEN "low" ELSE IF score10 < 50 THEN "medium" ELSE "high"

classifyComplexity(score10) == IF score10 <= 20 THEN "low" ELSE IF score10 <= 50 THEN "medium" ELSE "high"

calculateComplexity(operation, parameters, hasRequestBody) == classifyComplexity(complexityScore10(operation, parameters, hasRequestBody))

mentions(text, keyword) == includes(toLowerCase(text), keyword)

\* p.name.toLowerCase() inside parameters.some(...): a parameter without a
\* name (a Reference) throws unless an earlier parameter already matched.
nameMatches(p) == mentions(p.name, K_search) \/ mentions(p.name, K_filter)

summaryMatches(operation) == mentions(operation.summary, K_search) \/ mentions(operation.summary, K_filter)

estimateResponseTimeThrows(operation, parameters) == ~summaryMatches(operation) /\ \E i \in DOMAIN parameters : parameters[i].name = <<>> /\ \A j \in 1..(i - 1) : ~nameMatches(parameters[j])

responseTimeScore(operation, parameters, hasRequestBody) == (IF mentions(operation.operationId, K_get) \/ mentions(operation.summary, K_get) \/ mentions(operation.summary, K_list) THEN -1 ELSE 0) + (IF hasRequestBody THEN 1 ELSE 0) + (IF Len(parameters) > 5 THEN 1 ELSE 0) + (IF summaryMatches(operation) \/ some(parameters, nameMatches) THEN 1 ELSE 0)

estimateResponseTime(operation, parameters, hasRequestBody) == The({IF score <= 0 THEN "fast" ELSE IF score <= 1 THEN "medium" ELSE "slow" : score \in {responseTimeScore(operation, parameters, hasRequestBody)}})

\* The sentence generateBusinessContext picks, with the texts it puts in.
generateBusinessContext(operation) == The({The({[summary |-> IF template = "generic" THEN s ELSE <<>>, tags |-> IF template = "generic" THEN operation.tags ELSE [i \in DOMAIN operation.tags |-> toLowerCase(operation.tags[i])], template |-> template] : template \in {IF mentions(s, K_create) \/ mentions(s, K_add) THEN "creates" ELSE IF mentions(s, K_get) \/ mentions(s, K_list) \/ mentions(s, K_fetch) THEN "retrieves" ELSE IF mentions(s, K_update) \/ mentions(s, K_modify) THEN "updates" ELSE IF mentions(s, K_delete) \/ mentions(s, K_remove) THEN "removes" ELSE "generic"}}) : s \in {operation.summary}})

\* The hints of generateAISuggestions, each named by its subject.
methodSuggestions(path, method) == IF toLowerCase(method) = K_get /\ includes(path, K_idPlaceholder) THEN <<"record-details", "detail-views">> ELSE IF toLowerCase(method) = K_get THEN <<"listing", "pagination">> ELSE IF toLowerCase(method) = K_post THEN <<"creating", "validate-input">> ELSE IF toLowerCase(method) = K_put \/ toLowerCase(method) = K_patch THEN <<"edit-forms", "authorization">> ELSE IF toLowerCase(method) = K_delete THEN <<"confirmation", "soft-deletes">> ELSE <<>>

nameMentionsLimit(p) == mentions(p.name, K_limit)

nameMentionsFilter(p) == mentions(p.name, K_filter)

generateAISuggestions(operation, path, method) == methodSuggestions(path, method) \o (IF some(operation.parameters, nameMentionsLimit) THEN <<"supports-pagination">> ELSE <<>>) \o (IF some(operation.parameters, nameMentionsFilter) THEN <<"supports-filtering">> ELSE <<>>)

\* path.split('/').filter(Boolean)
RECURSIVE splitPath(_, _, _)

splitPath(s, current, done) == IF s = <<>> THEN (IF current = <<>> THEN done ELSE Append(done, current)) ELSE IF Head(s) = "/" THEN splitPath(Tail(s), <<>>, IF current = <<>> THEN done ELSE Append(done, current)) ELSE splitPath(Tail(s), Append(current, Head(s)), done)

endpointId(method, path) == toUpperCase(method) \o <<"_">> \o replaceNonAlnum(path)

\* The record built at lines 335-357 for one operation.
endpointOf(path, pathItem, method, operation) == The({The({[summary |-> operation.summary, tags |-> operation.tags, parameters |-> parameters, requestBody |-> operation.requestBody, responses |-> operation.responses[1], security |-> operation.security, description |-> operation.description, deprecated |-> operation.deprecated, operation |-> operation, hasRequestBody |-> hasRequestBody, path |-> path, method |-> toUpperCase(method), id |-> endpointId(method, path), businessContext |-> generateBusinessContext(operation), aiSuggestions |-> generateAISuggestions(operation, path, method), complexity |-> calculateComplexity(operation, parameters, hasRequestBody), pathSegments |-> splitPath(path, <<>>, <<>>), hasPathParams |-> includes(path, <<"{">>), hasQueryParams |-> \E i \in DOMAIN parameters : parameters[i].in = "query", responseTypes |-> responseTypesOf(operation), estimatedResponseTime |-> estimateResponseTime(operation, parameters, hasRequestBody)] : hasRequestBody \in {operation.requestBody # <<>>}}) : parameters \in {extractParameters(operation.parameters, pathItem.parameters)}})

\* Building the record throws when operation.responses is missing
\* (extractResponses calls Object.entries on it) or estimateResponseTime does.
endpointThrows(pathItem, operation) == operation.responses = <<>> \/ estimateResponseTimeThrows(operation, extractParameters(operation.parameters, pathItem.parameters))

\* methods.forEach over one path item.
RECURSIVE extractPathEndpoints(_, _, _)

extractPathEndpoints(path, pathItem, methods) == IF methods = <<>> THEN [value |-> <<>>, threw |-> FALSE] ELSE The({IF ~HasKey(pathItem.operations, Head(methods)) THEN rest ELSE The({IF endpointThrows(pathItem, operation) THEN [value |-> <<>>, threw |-> TRUE] ELSE [value |-> IF rest.threw THEN <<>> ELSE <<endpointOf(path, pathItem, Head(methods), operation)>> \o rest.value, threw |-> rest.threw] : operation \in {Lookup(pathItem.operations, Head(methods))}}) : rest \in {extractPathEndpoints(path, pathItem, Tail(methods))}})

\* Object.entries(paths).forEach.
RECURSIVE extractAllEndpoints(_)

extractAllEndpoints(paths) == IF paths = <<>> THEN [value |-> <<>>, threw |-> FALSE] ELSE The({The({[value |-> IF first.threw \/ rest.threw THEN <<>> ELSE first.value \o rest.value, threw |-> first.threw \/ rest.threw] : rest \in {extractAllEndpoints(Tail(paths))}}) : first \in {extractPathEndpoints(Head(paths).name, Head(paths).value, Methods)}})

\* extractEndpoints on this.spec: [] without a spec, a TypeError when
\* this.spec.paths is missing.
extractEndpoints(spec) == IF spec.kind = "null" THEN [value |-> <<>>, threw |-> FALSE] ELSE IF spec.kind # "doc" \/ spec.paths = <<>> THEN [value |-> <<>>, threw |-> TRUE] ELSE extractAllEndpoints(spec.paths[1])

(***************************************************************************)
(* generateAnalytics (utils/analytics.ts), as far as the handlers read it. *)
(***************************************************************************)
Count(seq, P(_)) == Cardinality({i \in DOMAIN seq : P(seq[i])})

generateAnalytics(endpoints) == [totalEndpoints |-> Len(endpoints), methodDistribution |-> [m \in {endpoints[i].method : i \in DOMAIN endpoints} |-> Cardinality({i \in DOMAIN endpoints : endpoints[i].method = m})], tagDistribution |-> [t \in UNION {Range(endpoints[i].tags) : i \in DOMAIN endpoints} |-> Cardinality({i \in DOMAIN endpoints : t \in Range(endpoints[i].tags)})], complexityDistribution |-> [c \in {endpoints[i].complexity : i \in DOMAIN endpoints} |-> Cardinality({i \in DOMAIN endpoints : endpoints[i].complexity = c})], deprecatedCount |-> Cardinality({i \in DOMAIN endpoints : endpoints[i].deprecated}), securitySchemes |-> UNION {Range(endpoints[i].security) : i \in DOMAIN endpoints}]

(***************************************************************************)
(* The results of a tool call.  text is the content the handler renders,   *)
(* kept as the data it is rendered from.                                   *)
(***************************************************************************)
Normal(text) == [text |-> text, isError |-> FALSE]

\* An error result: one built with isError: true, or the one the
\* CallToolRequestSchema handler builds from a thrown Error (lines 440-450).
Failure(message) == [text |-> message, isError |-> TRUE]

NotLoadedMessage == "No OpenAPI specification loaded"

NoResult == [text |-> "none", isError |-> FALSE]

\* Object.keys of a distribution that was filled in the order of seq: the
\* distinct members of seq, in the order of their first occurrence.
RECURSIVE keysInOrder(_, _)

keysInOrder(seq, acc) == IF seq = <<>> THEN acc ELSE keysInOrder(Tail(seq), IF has(acc, Head(seq)) THEN acc ELSE Append(acc, Head(seq)))

(***************************************************************************)
(* load_openapi_spec (lines 454-496).  The operator yields the parser's    *)
(* spec, currentSpec and currentEndpoints after the call, and the result.  *)
(* args = [source, sourceType].                                            *)
(***************************************************************************)
\* A load that appended the extracted records to the list it found.
loadOpenAPISpecAccumulating(parser, spec, endpoints, args) == The({IF parsed.threw THEN [parserSpec |-> parsed.spec, currentSpec |-> spec, currentEndpoints |-> endpoints, result |-> Failure("Failed to load OpenAPI spec")] ELSE The({IF extracted.threw THEN [parserSpec |-> parsed.spec, currentSpec |-> parsed.spec, currentEndpoints |-> endpoints, result |-> Failure("Failed to load OpenAPI spec")] ELSE The({[parserSpec |-> parsed.spec, currentSpec |-> parsed.spec, currentEndpoints |-> endpoints \o extracted.value, result |-> IF parsed.spec.info = <<>> THEN Failure("Failed to load OpenAPI spec") ELSE Normal([tags |-> Cardinality(DOMAIN analytics.tagDistribution), deprecated |-> analytics.deprecatedCount, title |-> parsed.spec.info[1].title, version |-> parsed.spec.info[1].version, openapi |-> parsed.spec.openapi, methods |-> keysInOrder([i \in DOMAIN extracted.value |-> extracted.value[i].method], <<>>), totalEndpoints |-> Len(extracted.value)])] : analytics \in {generateAnalytics(extracted.value)}}) : extracted \in {extractEndpoints(parsed.spec)}}) : parsed \in {IF args.sourceType = "url" THEN parseFromUrl(parser, args.source) ELSE parseFromText(parser, args.source)}})

loadOpenAPISpec(parser, spec, endpoints, args) == The({IF parsed.threw THEN [parserSpec |-> parsed.spec, currentSpec |-> spec, currentEndpoints |-> endpoints, result |-> Failure("Failed to load OpenAPI spec")] ELSE The({IF extracted.threw THEN [parserSpec |-> parsed.spec, currentSpec |-> parsed.spec, currentEndpoints |-> endpoints, result |-> Failure("Failed to load OpenAPI spec")] ELSE The({[parserSpec |-> parsed.spec, currentSpec |-> parsed.spec, currentEndpoints |-> extracted.value, result |-> IF parsed.spec.info = <<>> THEN Failure("Failed to load OpenAPI spec") ELSE Normal([tags |-> Cardinality(DOMAIN analytics.tagDistribution), deprecated |-> analytics.deprecatedCount, title |-> parsed.spec.info[1].title, version |-> parsed.spec.info[1].version, openapi |-> parsed.spec.openapi, methods |-> keysInOrder([i \in DOMAIN extracted.value |-> extracted.value[i].method], <<>>), totalEndpoints |-> Len(extracted.value)])] : analytics \in {generateAnalytics(extracted.value)}}) : extracted \in {extractEndpoints(parsed.spec)}}) : parsed \in {IF args.sourceType = "url" THEN parseFromUrl(parser, args.source) ELSE parseFromText(parser, args.source)}})

(***************************************************************************)
(* OpenAPIParser.getAllTags / getAllMethods (lines 495-531): [] without a  *)
(* spec, a TypeError when this.spec.paths is missing.  The sorted list is  *)
(* given as the set it lists.                                              *)
(***************************************************************************)
operationsOf(paths) == UNION {{paths[i].value.operations[j].value : j \in {k \in DOMAIN paths[i].value.operations : has(Methods, paths[i].value.operations[k].name)}} : i \in DOMAIN paths}

getAllTags(spec) == IF spec.kind = "null" THEN [value |-> {}, threw |-> FALSE] ELSE IF spec.kind # "doc" \/ spec.paths = <<>> THEN [value |-> {}, threw |-> TRUE] ELSE [value |-> Range(spec.tags) \cup UNION {Range(op.tags) : op \in operationsOf(spec.paths[1])}, threw |-> FALSE]

getAllMethods(spec) == IF spec.kind = "null" THEN [value |-> {}, threw |-> FALSE] ELSE IF spec.kind # "doc" \/ spec.paths = <<>> THEN [value |-> {}, threw |-> TRUE] ELSE [value |-> {toUpperCase(m) : m \in {n \in Range(Methods) : \E i \in DOMAIN spec.paths[1] : HasKey(spec.paths[1][i].value.operations, n)}}, threw |-> FALSE]

(***************************************************************************)
(* get_api_overview (lines 498-546).                                       *)
(***************************************************************************)
getAPIOverview(parser, spec, endpoints) == IF spec.kind = "null" \/ Len(endpoints) = 0 THEN Failure(NotLoadedMessage) ELSE The({The({IF tags.threw \/ methods.threw \/ spec.info = <<>> THEN Failure("TypeError") ELSE Normal([tags |-> tags.value, title |-> spec.info[1].title, methods |-> methods.value, totalEndpoints |-> generateAnalytics(endpoints).totalEndpoints]) : methods \in {getAllMethods(parser)}}) : tags \in {getAllTags(parser)}})

(***************************************************************************)
(* search_endpoints (lines 548-635).  args = [query, methods, tags,        *)
(* complexity, deprecated, hasParameters, hasRequestBody]; an absent       *)
(* string or list is the empty one, a boolean is a sequence of 0 or 1.     *)
(***************************************************************************)
ResultLimit == 20

\* depth = 5 of find_schema_dependencies (line 1383).
DefaultDepth == 5

matchesQuery(endpoint, searchTerm) == includes(toLowerCase(endpoint.path), searchTerm) \/ includes(toLowerCase(endpoint.summary), searchTerm) \/ includes(toLowerCase(endpoint.description), searchTerm) \/ \E i \in DOMAIN endpoint.tags : includes(toLowerCase(endpoint.tags[i]), searchTerm)

\* The successive filters of lines 563-610.
\* Filters of which the second starts again from the whole list.
filterEndpointsRestarting(endpoints, args) == LET f1 == IF args.query # <<>> THEN SelectSeq(endpoints, LAMBDA e : matchesQuery(e, toLowerCase(args.query))) ELSE endpoints IN LET f2 == IF Len(args.methods) > 0 THEN SelectSeq(endpoints, LAMBDA e : has(args.methods, e.method)) ELSE f1 IN LET f3 == IF Len(args.tags) > 0 THEN SelectSeq(f2, LAMBDA e : \E i \in DOMAIN e.tags : has(args.tags, e.tags[i])) ELSE f2 IN LET f4 == IF Len(args.complexity) > 0 THEN SelectSeq(f3, LAMBDA e : has(args.complexity, e.complexity)) ELSE f3 IN LET f5 == IF args.deprecated # <<>> THEN SelectSeq(f4, LAMBDA e : e.deprecated = args.deprecated[1]) ELSE f4 IN LET f6 == IF args.hasParameters # <<>> THEN SelectSeq(f5, LAMBDA e : (Len(e.parameters) > 0) = args.hasParameters[1]) ELSE f5 IN IF args.hasRequestBody # <<>> THEN SelectSeq(f6, LAMBDA e : (e.requestBody # <<>>) = args.hasRequestBody[1]) ELSE f6

filterEndpoints(endpoints, args) == LET f1 == IF args.query # <<>> THEN SelectSeq(endpoints, LAMBDA e : matchesQuery(e, toLowerCase(args.query))) ELSE endpoints IN LET f2 == IF Len(args.methods) > 0 THEN SelectSeq(f1, LAMBDA e : has(args.methods, e.method)) ELSE f1 IN LET f3 == IF Len(args.tags) > 0 THEN SelectSeq(f2, LAMBDA e : \E i \in DOMAIN e.tags : has(args.tags, e.tags[i])) ELSE f2 IN LET f4 == IF Len(args.complexity) > 0 THEN SelectSeq(f3, LAMBDA e : has(args.complexity, e.complexity)) ELSE f3 IN LET f5 == IF args.deprecated # <<>> THEN SelectSeq(f4, LAMBDA e : e.deprecated = args.deprecated[1]) ELSE f4 IN LET f6 == IF args.hasParameters # <<>> THEN SelectSeq(f5, LAMBDA e : (Len(e.parameters) > 0) = args.hasParameters[1]) ELSE f5 IN IF args.hasRequestBody # <<>> THEN SelectSeq(f6, LAMBDA e : (e.requestBody # <<>>) = args.hasRequestBody[1]) ELSE f6

slice(seq, n) == SubSeq(seq, 1, IF Len(seq) < n THEN Len(seq) ELSE n)

\* What the result text shows of one endpoint.
renderEndpoint(e) == [summary |-> e.summary, tags |-> e.tags, parameters |-> Len(e.parameters), description |-> e.description, deprecated |-> e.deprecated, hasRequestBody |-> e.requestBody # <<>>, path |-> e.path, method |-> e.method, complexity |-> e.complexity]

searchEndpoints(endpoints, args) == IF Len(endpoints) = 0 THEN Failure(NotLoadedMessage) ELSE The({Normal([found |-> Len(filteredEndpoints), results |-> [i \in DOMAIN slice(filteredEndpoints, ResultLimit) |-> renderEndpoint(filteredEndpoints[i])]]) : filteredEndpoints \in {filterEndpoints(endpoints, args)}})

(***************************************************************************)
(* get_endpoint_details (lines 637-692) and generate_code_examples (lines  *)
(* 694-746).  args = [method, path, language].                             *)
(***************************************************************************)
findEndpoint(endpoints, method, path) == {i \in DOMAIN endpoints : toLowerCase(endpoints[i].method) = toLowerCase(method) /\ endpoints[i].path = path}

first(indices) == CHOOSE i \in indices : \A j \in indices : i <= j

getEndpointDetails(endpoints, args) == IF Len(endpoints) = 0 THEN Failure(NotLoadedMessage) ELSE The({IF found = {} THEN Failure("Endpoint not found") ELSE The({Normal([responses |-> endpoint.responseTypes, businessContext |-> endpoint.businessContext, aiSuggestions |-> endpoint.aiSuggestions, endpoint |-> renderEndpoint(endpoint)]) : endpoint \in {endpoints[first(found)]}}) : found \in {findEndpoint(endpoints, args.method, args.path)}})

Languages == {"curl", "javascript", "python", "typescript"}

\* Whether the generated example sends a body.
exampleHasBody(endpoint) == endpoint.requestBody # <<>> /\ toLowerCase(endpoint.method) \in {K_post, K_put, K_patch}

generateCodeExamples(endpoints, args) == IF Len(endpoints) = 0 THEN Failure(NotLoadedMessage) ELSE The({IF found = {} THEN Failure("Endpoint not found") ELSE IF args.language \notin Languages THEN Failure("Unsupported language") ELSE The({Normal([parameters |-> Len(endpoint.parameters), body |-> exampleHasBody(endpoint), path |-> endpoint.path, method |-> endpoint.method, language |-> args.language]) : endpoint \in {endpoints[first(found)]}}) : found \in {findEndpoint(endpoints, args.method, args.path)}})

(***************************************************************************)
(* get_api_analytics (lines 822-880) and validate_api_design (lines        *)
(* 882-960).  args = [includeDistributions] and [focus].                   *)
(***************************************************************************)
getAPIAnalytics(endpoints, args) == IF Len(endpoints) = 0 THEN Failure(NotLoadedMessage) ELSE The({Normal([totalEndpoints |-> analytics.totalEndpoints, methodDistribution |-> IF args.includeDistributions THEN analytics.methodDistribution ELSE <<>>, deprecatedCount |-> analytics.deprecatedCount, securitySchemes |-> analytics.securitySchemes]) : analytics \in {generateAnalytics(endpoints)}})

\* highComplexityEndpoints.length > analytics.totalEndpoints * 0.3, times 10
tooManyComplex(endpoints) == Count(endpoints, LAMBDA e : e.complexity = "high") * 10 > Len(endpoints) * 3

designRecommendations(endpoints, focus) == The({(IF focus \in {"security", "all"} /\ analytics.securitySchemes = {} THEN <<"no-security-schemes">> ELSE <<>>) \o (IF focus \in {"security", "all"} /\ Count(endpoints, LAMBDA e : Len(e.security) = 0) > 0 THEN <<"unsecured-endpoints">> ELSE <<>>) \o (IF focus \in {"documentation", "all"} /\ Count(endpoints, LAMBDA e : e.summary = <<>> /\ e.description = <<>>) > 0 THEN <<"undocumented-endpoints">> ELSE <<>>) \o (IF focus \in {"documentation", "all"} /\ Count(endpoints, LAMBDA e : Len(e.tags) = 0) > 0 THEN <<"untagged-endpoints">> ELSE <<>>) \o (IF focus \in {"design", "all"} /\ analytics.deprecatedCount > 0 THEN <<"deprecated-endpoints">> ELSE <<>>) \o (IF focus \in {"design", "all"} /\ tooManyComplex(endpoints) THEN <<"complex-endpoints">> ELSE <<>>) \o (IF focus \in {"performance", "all"} /\ Count(endpoints, LAMBDA e : e.estimatedResponseTime = "slow") > 0 THEN <<"slow-endpoints">> ELSE <<>>) : analytics \in {generateAnalytics(endpoints)}})

validateAPIDesign(endpoints, args) == IF Len(endpoints) = 0 THEN Failure(NotLoadedMessage) ELSE The({Normal([focus |-> args.focus, recommendations |-> IF recommendations = <<>> THEN <<"great-job">> ELSE recommendations]) : recommendations \in {designRecommendations(endpoints, args.focus)}})

(***************************************************************************)
(* export_documentation (lines 962-1103).  args = [format].                *)
(***************************************************************************)
exportDocumentation(spec, endpoints, args) == IF spec.kind = "null" \/ Len(endpoints) = 0 THEN Failure(NotLoadedMessage) ELSE IF spec.info = <<>> THEN Failure("TypeError") ELSE Normal([title |-> spec.info[1].title, endpoints |-> [i \in DOMAIN endpoints |-> <<endpoints[i].method, endpoints[i].path>>], format |-> IF args.format \in {"summary", "json"} THEN args.format ELSE "markdown"])

(***************************************************************************)
(* The $ref strings under a part of the document: what a walk over every   *)
(* value of the object meets (findRefs of findUnusedSchemas, lines         *)
(* 1937-1950).                                                             *)
(***************************************************************************)
RECURSIVE refsInSchema(_)

refsInSchema(schema) == ({schema.ref} \ {NoRef}) \cup UNION {refsInSchema(schema.properties[i].value) : i \in DOMAIN schema.properties} \cup UNION {refsInSchema(schema.items[i]) : i \in DOMAIN schema.items} \cup UNION {refsInSchema(schema.allOf[i]) : i \in DOMAIN schema.allOf} \cup UNION {refsInSchema(schema.oneOf[i]) : i \in DOMAIN schema.oneOf} \cup UNION {refsInSchema(schema.anyOf[i]) : i \in DOMAIN schema.anyOf}

refsInSchemas(schemas) == UNION {refsInSchema(schemas[i]) : i \in DOMAIN schemas}

refsInContent(content) == UNION {refsInSchemas(content[i].value.schema) : i \in DOMAIN content}

refsInParameters(parameters) == UNION {({parameters[i].ref} \ {NoRef}) \cup refsInSchemas(parameters[i].schema) : i \in DOMAIN parameters}

refsInResponses(responses) == UNION {({responses[i].value.ref} \ {NoRef}) \cup refsInSchemas(responses[i].value.schema) \cup refsInContent(responses[i].value.content) : i \in DOMAIN responses}

refsInOperation(operation) == refsInParameters(operation.parameters) \cup UNION {({operation.requestBody[i].ref} \ {NoRef}) \cup refsInContent(operation.requestBody[i].content) : i \in DOMAIN operation.requestBody} \cup UNION {refsInResponses(operation.responses[i]) : i \in DOMAIN operation.responses}

refsInPathItem(pathItem) == refsInParameters(pathItem.parameters) \cup UNION {refsInOperation(pathItem.operations[i].value) : i \in DOMAIN pathItem.operations}

refsInPaths(paths) == UNION {refsInPathItem(paths[i].value) : i \in DOMAIN paths}

\* A scan of the components that reads the responses and leaves the
\* schemas out.
refsInComponentsResponses(components) == refsInResponses(components.responses)

refsInComponents(components) == UNION {refsInSchemas([i \in DOMAIN components.schemas[j] |-> components.schemas[j][i].value]) : j \in DOMAIN components.schemas} \cup refsInResponses(components.responses)

\* obj.$ref.split('/').pop(), kept when it is not the empty string.
refName(ref) == ref[Len(ref)]

refNames(refs) == {refName(r) : r \in refs} \ {""}

\* this.currentSpec.components?.schemas, as 0 or 1 schemas object.
schemasOf(spec) == IF spec.kind = "doc" /\ spec.components # <<>> THEN spec.components[1].schemas ELSE <<>>

(***************************************************************************)
(* find_unused_schemas (lines 1924-1986).  args = [includeIndirect-        *)
(* References].  The sorted lists are given as the sets they list.         *)
(***************************************************************************)
\* One turn of the while loop of lines 1961-1968.
expandUsed(schemas, used) == used \cup refNames(UNION {refsInSchema(Lookup(schemas, name)) : name \in {n \in used : HasKey(schemas, n)}})

RECURSIVE expandUntilStable(_, _)

expandUntilStable(schemas, used) == The({IF Cardinality(next) = Cardinality(used) THEN next ELSE expandUntilStable(schemas, next) : next \in {expandUsed(schemas, used)}})

\* Lines 1953-1969: the names the scan of paths and components collects.
\* A scan that starts from the paths alone.
collectUsedSchemasOfPaths(spec, includeIndirectReferences) == The({IF includeIndirectReferences /\ scanned # {} THEN expandUntilStable(schemasOf(spec)[1], scanned) ELSE scanned : scanned \in {refNames((IF spec.paths = <<>> THEN {} ELSE refsInPaths(spec.paths[1])))}})

collectUsedSchemas(spec, includeIndirectReferences) == The({IF includeIndirectReferences /\ scanned # {} THEN expandUntilStable(schemasOf(spec)[1], scanned) ELSE scanned : scanned \in {refNames((IF spec.paths = <<>> THEN {} ELSE refsInPaths(spec.paths[1])) \cup refsInComponents(spec.components[1]))}})

\* Math.round((used / total) * 100); 0 / 0 and n / 0 are no numbers.
usagePercentage(used, total) == IF total = 0 THEN "NaN" ELSE (200 * used + total) \div (2 * total)

findUnusedSchemas(spec, args) == IF spec.kind = "null" \/ schemasOf(spec) = <<>> THEN Failure("No OpenAPI specification or schemas loaded") ELSE The({The({The({Normal([usagePercentage |-> usagePercentage(Cardinality(usedSchemas), Cardinality(allSchemas)), usedSchemas |-> usedSchemas, totalSchemas |-> Cardinality(allSchemas), unusedSchemas |-> unusedSchemas, unusedCount |-> Cardinality(unusedSchemas)]) : unusedSchemas \in {allSchemas \ usedSchemas}}) : allSchemas \in {Keys(schemasOf(spec)[1])}}) : usedSchemas \in {collectUsedSchemas(spec, args.includeIndirectReferences)}})

(***************************************************************************)
(* search_request_body_properties (lines 1105-1229).  args =               *)
(* [propertyName, propertyType, required, methods]: an absent string is    *)
(* the empty one, required and methods are sequences of 0 or 1 value.      *)
(* A path is the sequence of its segments.                                 *)
(***************************************************************************)
propertyMatches(args, propName, propSchema, isRequired) == (args.propertyName = <<>> \/ includes(toLowerCase(propName), toLowerCase(args.propertyName))) /\ (args.propertyType = "" \/ propSchema.type = args.propertyType) /\ (args.required = <<>> \/ isRequired = args.required[1])

RECURSIVE searchInSchema(_, _, _, _)

RECURSIVE searchInProperties(_, _, _, _, _)

RECURSIVE searchInMembers(_, _, _, _, _, _)

\* Object.entries(schema.properties).forEach, from the i-th property on.
searchInProperties(schemas, args, schema, path, i) == IF i > Len(schema.properties) THEN <<>> ELSE The({The({The({The({(IF propertyMatches(args, propName, propSchema, isRequired) THEN <<[required |-> isRequired, path |-> currentPath, propertyName |-> propName, propertyType |-> IF propSchema.type = "" THEN "unknown" ELSE propSchema.type]>> ELSE <<>>) \o (IF propSchema.type = "object" \/ propSchema.properties # <<>> THEN searchInSchema(schemas, args, propSchema, currentPath) ELSE <<>>) \o (IF propSchema.type = "array" /\ propSchema.items # <<>> THEN searchInSchema(schemas, args, propSchema.items[1], Append(currentPath, [items |-> TRUE])) ELSE <<>>) \o searchInProperties(schemas, args, schema, path, i + 1) : isRequired \in {has(schema.required, propName)}}) : currentPath \in {Append(path, [property |-> propName])}}) : propSchema \in {schema.properties[i].value}}) : propName \in {schema.properties[i].name}})

\* schema[keyword].forEach, from the i-th member on.
searchInMembers(schemas, args, members, keyword, path, i) == IF i > Len(members) THEN <<>> ELSE searchInSchema(schemas, args, members[i], Append(path, [keyword |-> keyword, index |-> i - 1])) \o searchInMembers(schemas, args, members, keyword, path, i + 1)

searchInSchema(schemas, args, schema, path) == IF schema.ref # NoRef THEN (IF schemas # <<>> /\ HasKey(schemas[1], refName(schema.ref)) THEN searchInSchema(schemas, args, Lookup(schemas[1], refName(schema.ref)), Append(path, [ref |-> refName(schema.ref)])) ELSE <<>>) ELSE searchInProperties(schemas, args, schema, path, 1) \o searchInMembers(schemas, args, schema.oneOf, "oneOf", path, 1) \o searchInMembers(schemas, args, schema.anyOf, "anyOf", path, 1) \o searchInMembers(schemas, args, schema.allOf, "allOf", path, 1)

\* The result entries of one endpoint (lines 1198-1217).
RECURSIVE searchInContent(_, _, _, _, _)

searchInContent(schemas, args, endpoint, content, i) == IF i > Len(content) THEN <<>> ELSE The({(IF properties # <<>> THEN <<[properties |-> properties, mediaType |-> content[i].name, path |-> endpoint.path, method |-> endpoint.method]>> ELSE <<>>) \o searchInContent(schemas, args, endpoint, content, i + 1) : properties \in {IF content[i].value.schema = <<>> THEN <<>> ELSE searchInSchema(schemas, args, content[i].value.schema[1], <<>>)}})

RECURSIVE searchInEndpoints(_, _, _, _)

searchInEndpoints(schemas, args, endpoints, i) == IF i > Len(endpoints) THEN <<>> ELSE (IF (args.methods # <<>> /\ ~has(args.methods[1], toUpperCase(endpoints[i].method))) \/ endpoints[i].requestBody = <<>> THEN <<>> ELSE searchInContent(schemas, args, endpoints[i], endpoints[i].requestBody[1].content, 1)) \o searchInEndpoints(schemas, args, endpoints, i + 1)

RECURSIVE sumLengths(_)

sumLengths(results) == IF results = <<>> THEN 0 ELSE Len(Head(results).properties) + sumLengths(Tail(results))

\* The message of the RangeError the runtime throws when the call stack is
\* used up; the catch of lines 440-450 returns it as an error result.
StackMessage == "Maximum call stack size exceeded"

\* The schemas on which searchInSchema(schema) calls itself: the target of
\* a $ref (line 1126), the properties that are objects (line 1172), the
\* items of the properties that are arrays (line 1177) and the oneOf,
\* anyOf and allOf members (line 1185).
searchInSchemaCalls(schemas, schema) == IF schema.ref # NoRef THEN (IF schemas # <<>> /\ HasKey(schemas[1], refName(schema.ref)) THEN {Lookup(schemas[1], refName(schema.ref))} ELSE {}) ELSE {schema.properties[i].value : i \in {j \in DOMAIN schema.properties : schema.properties[j].value.type = "object" \/ schema.properties[j].value.properties # <<>>}} \cup {schema.properties[i].value.items[1] : i \in {j \in DOMAIN schema.properties : schema.properties[j].value.type = "array" /\ schema.properties[j].value.items # <<>>}} \cup {schema.oneOf[i] : i \in DOMAIN schema.oneOf} \cup {schema.anyOf[i] : i \in DOMAIN schema.anyOf} \cup {schema.allOf[i] : i \in DOMAIN schema.allOf}

RECURSIVE searchInSchemaOverflows(_, _, _)

\* searchInSchema keeps no record of the schemas it is in: when a call
\* reaches a schema whose call has not returned yet (active), the same
\* calls follow again and the recursion ends only with the call stack.
searchInSchemaOverflows(schemas, schema, active) == schema \in active \/ \E callee \in searchInSchemaCalls(schemas, schema) : searchInSchemaOverflows(schemas, callee, active \cup {schema})

\* Lines 1194-1217: the schemas searchInSchema is called on.
searchedSchemas(args, endpoints) == UNION {{ep.requestBody[1].content[j].value.schema[1] : j \in {k \in DOMAIN ep.requestBody[1].content : ep.requestBody[1].content[k].value.schema # <<>>}} : ep \in {endpoints[i] : i \in {k \in DOMAIN endpoints : ~(args.methods # <<>> /\ ~has(args.methods[1], toUpperCase(endpoints[k].method))) /\ endpoints[k].requestBody # <<>>}}}

searchRequestBodyProperties(spec, endpoints, args) == IF spec.kind = "null" THEN Failure(NotLoadedMessage) ELSE IF \E schema \in searchedSchemas(args, endpoints) : searchInSchemaOverflows(schemasOf(spec), schema, {}) THEN Failure(StackMessage) ELSE The({Normal([results |-> results, totalMatches |-> sumLengths(results)]) : results \in {searchInEndpoints(schemasOf(spec), args, endpoints, 1)}})

(***************************************************************************)
(* generate_typescript_types (lines 1231-1351): the interfaces it emits,   *)
(* by what each is generated from.  args = [schemaName, includeRequest-    *)
(* Bodies, includeResponses].                                              *)
(***************************************************************************)
inlineSchemas(content) == {i \in DOMAIN content : content[i].value.schema # <<>> /\ content[i].value.schema[1].ref = NoRef}

generateTypeScriptTypes(spec, endpoints, args) == IF spec.kind = "null" THEN Failure(NotLoadedMessage) ELSE Normal([responses |-> IF args.includeResponses THEN {i \in DOMAIN endpoints : \E r \in DOMAIN endpoints[i].responses : inlineSchemas(endpoints[i].responses[r].value.content) # {}} ELSE {}, schemas |-> IF schemasOf(spec) = <<>> THEN <<>> ELSE SelectSeq([i \in DOMAIN schemasOf(spec)[1] |-> schemasOf(spec)[1][i].name], LAMBDA n : args.schemaName = "" \/ n = args.schemaName), requests |-> IF args.includeRequestBodies THEN {i \in DOMAIN endpoints : endpoints[i].requestBody # <<>> /\ inlineSchemas(endpoints[i].requestBody[1].content) # {}} ELSE {}])

(***************************************************************************)
(* find_schema_dependencies (lines 1375-1436) and analyze_schema_evolution *)
(* (lines 1988-2043).  args = [schemaName, direction, depth] and           *)
(* [schemaName]; an absent direction is "both", an absent depth 5.         *)
(***************************************************************************)
\* The values of a schema object that are objects or arrays, in the order
\* of the members properties, items, allOf, oneOf, anyOf.
schemaChildren(schema) == [i \in DOMAIN schema.properties |-> schema.properties[i].value] \o schema.items \o schema.allOf \o schema.oneOf \o schema.anyOf

RECURSIVE findRefs(_, _, _, _, _)

RECURSIVE findRefsOfAll(_, _, _, _, _, _)

\* findRefs of lines 1393-1416, for an object obj.  visited is the one Set
\* that every call of a traversal adds to: the operator yields the names it
\* returns and the Set as the call leaves it.
findRefs(schemas, depth, obj, visited, currentDepth) == IF currentDepth >= depth THEN [refs |-> <<>>, visited |-> visited] ELSE The({findRefsOfAll(schemas, depth, schemaChildren(obj), own.visited, currentDepth, own.refs) : own \in {IF obj.ref # NoRef /\ refName(obj.ref) # "" /\ refName(obj.ref) \notin visited THEN (IF HasKey(schemas, refName(obj.ref)) THEN The({[refs |-> <<refName(obj.ref)>> \o below.refs, visited |-> below.visited] : below \in {findRefs(schemas, depth, Lookup(schemas, refName(obj.ref)), visited \cup {refName(obj.ref)}, currentDepth + 1)}}) ELSE [refs |-> <<refName(obj.ref)>>, visited |-> visited \cup {refName(obj.ref)}]) ELSE [refs |-> <<>>, visited |-> visited]}})

\* Lines 1410-1414: the values of obj in turn, then [...new Set(refs)].
findRefsOfAll(schemas, depth, children, visited, currentDepth, acc) == IF children = <<>> THEN [refs |-> keysInOrder(acc, <<>>), visited |-> visited] ELSE The({findRefsOfAll(schemas, depth, Tail(children), head.visited, currentDepth, acc \o head.refs) : head \in {findRefs(schemas, depth, Head(children), visited, currentDepth)}})

RECURSIVE extractDirectRefs(_)

RECURSIVE extractDirectRefsOfAll(_, _)

\* extractDirectRefs (lines 1453-1470).
extractDirectRefs(obj) == extractDirectRefsOfAll(schemaChildren(obj), IF obj.ref # NoRef /\ refName(obj.ref) # "" THEN <<refName(obj.ref)>> ELSE <<>>)

extractDirectRefsOfAll(children, acc) == IF children = <<>> THEN keysInOrder(acc, <<>>) ELSE extractDirectRefsOfAll(Tail(children), acc \o extractDirectRefs(Head(children)))

RECURSIVE buildDependencyTreeForgetting(_, _, _, _, _)

\* A tree built without recording the schema being expanded: only the
\* depth limit ends a cycle.
buildDependencyTreeForgetting(schemaName, schemas, maxDepth, visited, depth) == IF depth >= maxDepth \/ schemaName \in visited \/ ~HasKey(schemas, schemaName) THEN [name |-> schemaName, circular |-> <<schemaName \in visited>>, dependencies |-> <<>>] ELSE The({[name |-> schemaName, circular |-> <<>>, dependencies |-> <<[i \in DOMAIN refs |-> buildDependencyTreeForgetting(refs[i], schemas, maxDepth, visited, depth + 1)]>>] : refs \in {extractDirectRefs(Lookup(schemas, schemaName))}})

RECURSIVE buildDependencyTree(_, _, _, _, _)

\* buildDependencyTree (lines 1438-1451).  A node has either the member
\* circular or the member dependencies, each given as 0 or 1 value.
buildDependencyTree(schemaName, schemas, maxDepth, visited, depth) == IF depth >= maxDepth \/ schemaName \in visited \/ ~HasKey(schemas, schemaName) THEN [name |-> schemaName, circular |-> <<schemaName \in visited>>, dependencies |-> <<>>] ELSE The({[name |-> schemaName, circular |-> <<>>, dependencies |-> <<[i \in DOMAIN refs |-> buildDependencyTree(refs[i], schemas, maxDepth, visited \cup {schemaName}, depth + 1)]>>] : refs \in {extractDirectRefs(Lookup(schemas, schemaName))}})

\* Lines 1418-1423.
dependenciesOf(schemas, args) == IF args.direction = "dependents" THEN <<>> ELSE findRefs(schemas, args.depth, Lookup(schemas, args.schemaName), {}, 0).refs

dependentsOf(schemas, args) == IF args.direction = "dependencies" THEN <<>> ELSE SelectSeq([i \in DOMAIN schemas |-> schemas[i].name], LAMBDA name : name # args.schemaName /\ has(findRefs(schemas, args.depth, Lookup(schemas, name), {}, 0).refs, args.schemaName))

findSchemaDependencies(spec, args) == IF spec.kind = "null" \/ schemasOf(spec) = <<>> THEN Failure("No OpenAPI specification or schemas loaded") ELSE IF ~HasKey(schemasOf(spec)[1], args.schemaName) THEN Failure("Schema not found") ELSE The({Normal([schema |-> args.schemaName, dependencies |-> dependenciesOf(schemas, args), dependents |-> dependentsOf(schemas, args), dependencyTree |-> IF args.direction # "dependents" THEN <<buildDependencyTree(args.schemaName, schemas, args.depth, {}, 0)>> ELSE <<>>]) : schemas \in {schemasOf(spec)[1]}})

analyzeSchemaEvolution(spec, args) == IF spec.kind = "null" \/ schemasOf(spec) = <<>> THEN Failure("No OpenAPI specification or schemas loaded") ELSE IF args.schemaName # "" /\ ~HasKey(schemasOf(spec)[1], args.schemaName) THEN Failure("Schema not found") ELSE Normal([schemas |-> IF args.schemaName # "" THEN {args.schemaName} ELSE Keys(schemasOf(spec)[1])])

(***************************************************************************)
(* validate_request_examples (lines 1472-1621).  args = [endpoint,         *)
(* strictMode]; endpoint is a sequence of 0 or 1 [method, path], the two   *)
(* parts of 'METHOD:path'.                                                *)
(***************************************************************************)
endpointsToCheck(endpoints, endpoint) == IF endpoint # <<>> THEN SelectSeq(endpoints, LAMBDA ep : toUpperCase(ep.method) = endpoint[1].method /\ ep.path = endpoint[1].path) ELSE endpoints

ValidationError(path, error) == [path |-> path, error |-> error]

RECURSIVE validateExample(_, _, _, _, _)

RECURSIVE validateEntries(_, _, _, _, _, _, _)

\* Lines 1536-1542: the required properties, each looked up with "in",
\* which throws a TypeError when example is a string or a number.
missingRequired(example, schema, path) == IF example.kind \in {"string", "number"} /\ schema.required # <<>> THEN [value |-> <<>>, threw |-> TRUE] ELSE [value |-> SelectSeq([i \in DOMAIN schema.required |-> ValidationError(Append(path, schema.required[i]), "Required property missing")], LAMBDA e : ~HasKey(example.members, e.path[Len(e.path)])), threw |-> FALSE]

\* Number(example), as the comparison operators < and > convert their
\* operand: 0 or 1 integer, none standing for NaN.  The strings of this
\* model are letters.
toNumber(example) == CASE example.kind = "number" -> <<example.size>> [] example.kind = "array" /\ example.size = 0 -> <<0>> [] example.kind = "array" /\ example.size = 1 /\ example.members[1].value.kind = "number" -> <<example.members[1].value.size>> [] OTHER -> <<>>

\* Lines 1527-1534: the bounds of a number or integer schema.
outOfBounds(example, schema, path) == IF schema.type \in {"number", "integer"} THEN The({(IF schema.minimum # <<>> /\ value # <<>> /\ value[1] < schema.minimum[1] THEN <<ValidationError(path, "Number too small")>> ELSE <<>>) \o (IF schema.maximum # <<>> /\ value # <<>> /\ value[1] > schema.maximum[1] THEN <<ValidationError(path, "Number too large")>> ELSE <<>>) : value \in {toNumber(example)}}) ELSE <<>>

\* validateExample of lines 1483-1564.  No schema of this model has
\* minLength, maxLength, pattern or enum.  schemas is
\* this.currentSpec.components?.schemas as 0 or 1 object.
validateExample(schemas, strictMode, example, schema, path) == IF ~truthy(example) THEN [value |-> <<>>, threw |-> FALSE] ELSE IF schema.ref # NoRef THEN (IF schemas # <<>> /\ HasKey(schemas[1], refName(schema.ref)) THEN validateExample(schemas, strictMode, example, Lookup(schemas[1], refName(schema.ref)), path) ELSE [value |-> <<>>, threw |-> FALSE]) ELSE IF schema.type = "" THEN [value |-> <<>>, threw |-> FALSE] ELSE The({IF schema.type = "object" /\ schema.properties # <<>> THEN The({IF required.threw THEN required ELSE validateEntries(schemas, strictMode, objectEntries(example), schema.properties, path, mismatch \o required.value, FALSE) : required \in {missingRequired(example, schema, path)}}) ELSE IF schema.type = "array" /\ schema.items # <<>> THEN (IF example.kind # "array" THEN [value |-> <<>>, threw |-> TRUE] ELSE validateEntries(schemas, strictMode, example.members, schema.items, path, mismatch, TRUE)) ELSE [value |-> mismatch, threw |-> FALSE] : mismatch \in {(IF example.kind # (IF schema.type = "integer" THEN "number" ELSE schema.type) THEN <<ValidationError(path, "Type mismatch")>> ELSE <<>>) \o outOfBounds(example, schema, path)}})

\* Lines 1545-1551 (the entries of an object against the properties) and
\* lines 1555-1557 (forEach: the items of an array against schema.items,
\* given as the 1 schema of into).
validateEntries(schemas, strictMode, entries, into, path, acc, forEach) == IF entries = <<>> THEN [value |-> acc, threw |-> FALSE] ELSE IF forEach \/ HasKey(into, Head(entries).name) THEN The({IF item.threw THEN item ELSE validateEntries(schemas, strictMode, Tail(entries), into, path, acc \o item.value, forEach) : item \in {validateExample(schemas, strictMode, Head(entries).value, IF forEach THEN into[1] ELSE Lookup(into, Head(entries).name), Append(path, Head(entries).name))}}) ELSE validateEntries(schemas, strictMode, Tail(entries), into, path, IF strictMode THEN Append(acc, ValidationError(Append(path, Head(entries).name), "Additional property not allowed in strict mode")) ELSE acc, forEach)

RECURSIVE validateContent(_, _, _, _, _)

\* Lines 1576-1589 and 1595-1609: the media types of one content object
\* that have a schema and an example; acc.value collects the results, each
\* given by its type, its media type and its errors.
validateContent(schemas, strictMode, content, where, acc) == IF acc.threw \/ content = <<>> THEN acc ELSE The({validateContent(schemas, strictMode, Tail(content), where, IF errors.threw THEN [value |-> acc.value, threw |-> TRUE] ELSE IF errors.value = <<>> THEN acc ELSE [value |-> Append(acc.value, [type |-> where, mediaType |-> Head(content).name, errors |-> errors.value]), threw |-> FALSE]) : errors \in {IF Head(content).value.schema # <<>> /\ Head(content).value.example # <<>> /\ truthy(Head(content).value.example[1]) THEN validateExample(schemas, strictMode, Head(content).value.example[1], Head(content).value.schema[1], <<where>>) ELSE [value |-> <<>>, threw |-> FALSE]}})

RECURSIVE validateResponses(_, _, _, _)

validateResponses(schemas, strictMode, responses, acc) == IF acc.threw \/ responses = <<>> THEN acc ELSE validateResponses(schemas, strictMode, Tail(responses), validateContent(schemas, strictMode, Head(responses).value.content, "response", acc))

RECURSIVE validateEndpoints(_, _, _, _)

\* Lines 1570-1611.
validateEndpoints(schemas, strictMode, endpoints, acc) == IF acc.threw \/ endpoints = <<>> THEN acc ELSE validateEndpoints(schemas, strictMode, Tail(endpoints), validateResponses(schemas, strictMode, Head(endpoints).responses, validateContent(schemas, strictMode, IF Head(endpoints).requestBody # <<>> THEN Head(endpoints).requestBody[1].content ELSE <<>>, "request", acc)))

RECURSIVE totalIssues(_)

\* results.reduce((sum, r) => sum + r.errors.length, 0)
totalIssues(results) == IF results = <<>> THEN 0 ELSE Len(Head(results).errors) + totalIssues(Tail(results))

\* The calls validateExample(example, schema) makes to itself: on the
\* target of a $ref with the same example (line 1491), on the values of
\* the properties the schema has (line 1548), on the items (line 1556).
validateExampleCalls(schemas, example, schema) == IF ~truthy(example) THEN {} ELSE IF schema.ref # NoRef THEN (IF schemas # <<>> /\ HasKey(schemas[1], refName(schema.ref)) THEN {<<example, Lookup(schemas[1], refName(schema.ref))>>} ELSE {}) ELSE IF schema.type = "object" /\ schema.properties # <<>> THEN {<<example.members[i].value, Lookup(schema.properties, example.members[i].name)>> : i \in {j \in DOMAIN example.members : example.kind = "object" /\ HasKey(schema.properties, example.members[j].name)}} ELSE IF schema.type = "array" /\ schema.items # <<>> /\ example.kind = "array" THEN {<<example.members[i].value, schema.items[1]>> : i \in DOMAIN example.members} ELSE {}

RECURSIVE validateExampleOverflows(_, _, _, _)

\* validateExample keeps no record of the schemas it is in either: a call
\* that reaches a call that has not returned (active) never ends.  No
\* document of this model holds both such a cycle and an example that
\* makes validateExample throw a TypeError before it.
validateExampleOverflows(schemas, example, schema, active) == <<example, schema>> \in active \/ \E callee \in validateExampleCalls(schemas, example, schema) : validateExampleOverflows(schemas, callee[1], callee[2], active \cup {<<example, schema>>})

\* Lines 1576-1577 and 1595-1596: the examples validateExample is called
\* on, each with its schema.
validatedExamples(endpoints) == {<<content.example[1], content.schema[1]>> : content \in {c \in UNION {{ep.requestBody[1].content[j].value : j \in DOMAIN ep.requestBody[1].content} : ep \in {endpoints[i] : i \in {k \in DOMAIN endpoints : endpoints[k].requestBody # <<>>}}} \cup UNION {UNION {{ep.responses[r].value.content[j].value : j \in DOMAIN ep.responses[r].value.content} : r \in DOMAIN ep.responses} : ep \in {endpoints[i] : i \in DOMAIN endpoints}} : c.schema # <<>> /\ c.example # <<>> /\ truthy(c.example[1])}}

validateRequestExamples(spec, endpoints, args) == IF spec.kind = "null" THEN Failure(NotLoadedMessage) ELSE IF \E pair \in validatedExamples(endpointsToCheck(endpoints, args.endpoint)) : validateExampleOverflows(schemasOf(spec), pair[1], pair[2], {}) THEN Failure(StackMessage) ELSE The({IF results.threw THEN Failure("TypeError") ELSE Normal([results |-> results.value, totalIssues |-> totalIssues(results.value), validationMode |-> IF args.strictMode THEN "strict" ELSE "lenient", checked |-> Len(endpointsToCheck(endpoints, args.endpoint))]) : results \in {validateEndpoints(schemasOf(spec), args.strictMode, endpointsToCheck(endpoints, args.endpoint), [value |-> <<>>, threw |-> FALSE])}})

(***************************************************************************)
(* extract_auth_patterns (lines 1623-1655).  No document of this model has *)
(* components.securitySchemes or a global security member.                 *)
(***************************************************************************)
extractAuthPatterns(spec, endpoints, args) == IF spec.kind = "null" THEN Failure(NotLoadedMessage) ELSE Normal([endpointSecurity |-> IF args.includeEndpointMapping THEN [i \in DOMAIN endpoints |-> [path |-> endpoints[i].path, method |-> toUpperCase(endpoints[i].method), authRequired |-> Len(endpoints[i].security) > 0]] ELSE <<>>, unsecured |-> Count(endpoints, LAMBDA e : Len(e.security) = 0)])

(***************************************************************************)
(* generate_mock_data (lines 1768-1881): what is looked up and how many    *)
(* values are generated.  args = [schemaName, endpoint, count, format].    *)
(***************************************************************************)
\* The switch of lines 1863-1873: every format but 'javascript' and
\* 'typescript' is written as JSON.
mockFormat(format) == IF format \in {"javascript", "typescript"} THEN format ELSE "json"

\* Math.random() is one of RandomSteps values k / RandomSteps.
RandomSteps == 4

JsonBoolean(b) == [kind |-> "boolean", size |-> IF b THEN 1 ELSE 0, members |-> <<>>]

\* generateNumberValue of lines 1917-1922, the values it can return.
\* Math.floor(r * (max - min) + min) is min + floor(r * (max - min)), min
\* being an integer.  The schemas of type 'number' of this model have no
\* bounds, so that r * 100 is an integer and the rounding of line 1921
\* keeps it.
generateNumberValue(schema) == The({The({{JsonNumber(min + (k * (max - min)) \div RandomSteps) : k \in 0..(RandomSteps - 1)} : max \in {IF schema.maximum # <<>> /\ schema.maximum[1] # 0 THEN schema.maximum[1] ELSE 100}}) : min \in {IF schema.minimum # <<>> /\ schema.minimum[1] # 0 THEN schema.minimum[1] ELSE 0}})

\* generateStringValue of lines 1883-1915 with realistic = true, the
\* strings it can return, each given by its length.  No schema of this
\* model has format, minLength or maxLength.  fieldName is 0 or 1 name.
generateStringValue(schema, fieldName) == IF fieldName = <<>> THEN {JsonString((k * 20) \div RandomSteps + 1) : k \in 0..(RandomSteps - 1)} ELSE The({CASE includes(lowerName, <<"n", "a", "m", "e">>) -> {JsonString(8)} [] includes(lowerName, <<"e", "m", "a", "i", "l">>) -> {JsonString(20)} [] includes(lowerName, <<"p", "h", "o", "n", "e">>) -> {JsonString(15)} [] includes(lowerName, <<"a", "d", "d", "r", "e", "s", "s">>) -> {JsonString(25)} [] includes(lowerName, <<"i", "d">>) -> {JsonString(6)} [] includes(lowerName, <<"u", "r", "l">>) -> {JsonString(19)} [] OTHER -> {JsonString((k * 20) \div RandomSteps + 1) : k \in 0..(RandomSteps - 1)} : lowerName \in {toLowerCase(fieldName[1])}})

\* Math.min(count, 5) of line 1811, for a count that is not negative.
arrayLength(count) == IF count < 5 THEN count ELSE 5

\* The schemas on which generateMockValue(schema) calls itself whatever
\* Math.random() returns: the target of a $ref (line 1785), the items of
\* an array that is not empty (line 1813), the required properties (line
\* 1820).
generateMockValueCalls(schemas, schema, count) == IF schema.ref # NoRef THEN (IF schemas # <<>> /\ HasKey(schemas[1], refName(schema.ref)) THEN {Lookup(schemas[1], refName(schema.ref))} ELSE {}) ELSE IF schema.type = "array" THEN (IF arrayLength(count) > 0 /\ schema.items # <<>> THEN {schema.items[1]} ELSE {}) ELSE IF schema.type = "object" THEN {schema.properties[i].value : i \in {j \in DOMAIN schema.properties : has(schema.required, schema.properties[j].name)}} ELSE {}

RECURSIVE generateMockValueOverflows(_, _, _, _)

\* generateMockValue keeps no record of the schemas it is in: a call that
\* reaches a schema whose call has not returned (active) never ends.
generateMockValueOverflows(schemas, schema, count, active) == schema \in active \/ \E callee \in generateMockValueCalls(schemas, schema, count) : generateMockValueOverflows(schemas, callee, count, active \cup {schema})

RECURSIVE generateMockValue(_, _, _, _)

RECURSIVE generateMockProperties(_, _, _, _)

\* Lines 1818-1823: the members the object can get from the i-th property
\* on; a property that is not required is left out when Math.random() is
\* at most 0.3.
generateMockProperties(schemas, schema, count, i) == IF i > Len(schema.properties) THEN {<<>>} ELSE The({{<<Entry(schema.properties[i].name, v)>> \o r : v \in generateMockValue(schemas, schema.properties[i].value, <<schema.properties[i].name>>, count), r \in rest} \cup (IF has(schema.required, schema.properties[i].name) THEN {} ELSE rest) : rest \in {generateMockProperties(schemas, schema, count, i + 1)}})

\* generateMockValue of lines 1778-1828: the values it can return for a
\* schema on which it ends.  No schema of this model has example or enum,
\* and none reaches itself through properties that are not required.
generateMockValue(schemas, schema, fieldName, count) == IF schema.ref # NoRef THEN (IF schemas # <<>> /\ HasKey(schemas[1], refName(schema.ref)) THEN generateMockValue(schemas, Lookup(schemas[1], refName(schema.ref)), fieldName, count) ELSE {JsonNull}) ELSE CASE schema.type = "string" -> generateStringValue(schema, fieldName) [] schema.type \in {"number", "integer"} -> generateNumberValue(schema) [] schema.type = "boolean" -> {JsonBoolean(FALSE), JsonBoolean(TRUE)} [] schema.type = "array" -> {JsonArray(items) : items \in [1..arrayLength(count) -> IF schema.items = <<>> THEN {JsonNull} ELSE generateMockValue(schemas, schema.items[1], fieldName, count)]} [] schema.type = "object" -> (IF schema.properties # <<>> THEN {JsonObject(members) : members \in generateMockProperties(schemas, schema, count, 1)} ELSE {JsonObject(<<>>)}) [] OTHER -> {JsonNull}

\* Lines 1840 and 1858: Array.from({ length: count }, ...) over schema, 0
\* or 1 schema, and the output of lines 1862-1880.  The results the call
\* can return.
mockData(schemas, schema, args) == IF schema = <<>> \/ args.count = 0 THEN {Normal([format |-> mockFormat(args.format), values |-> <<>>])} ELSE IF generateMockValueOverflows(schemas, schema[1], args.count, {}) THEN {Failure(StackMessage)} ELSE {Normal([format |-> mockFormat(args.format), values |-> values]) : values \in [1..args.count -> generateMockValue(schemas, schema[1], <<>>, args.count)]}

\* The results generate_mock_data can return.
generateMockData(spec, endpoints, args) == IF spec.kind = "null" THEN {Failure(NotLoadedMessage)} ELSE IF args.schemaName # "" THEN (IF schemasOf(spec) = <<>> \/ ~HasKey(schemasOf(spec)[1], args.schemaName) THEN {Failure("Schema not found")} ELSE mockData(schemasOf(spec), <<Lookup(schemasOf(spec)[1], args.schemaName)>>, args)) ELSE IF args.endpoint # <<>> THEN The({IF found = {} THEN {Failure("Endpoint not found")} ELSE The({mockData(schemasOf(spec), IF ep.requestBody # <<>> /\ ep.requestBody[1].content # <<>> THEN ep.requestBody[1].content[1].value.schema ELSE <<>>, args) : ep \in {endpoints[first(found)]}}) : found \in {{i \in DOMAIN endpoints : toUpperCase(endpoints[i].method) = toUpperCase(args.endpoint[1].method) /\ endpoints[i].path = args.endpoint[1].path}}}) ELSE mockData(schemasOf(spec), <<>>, args)

(***************************************************************************)
(* Documents and texts the session is exercised with.                      *)
(***************************************************************************)
P_pets == <<"/", "p", "e", "t", "s">>

P_petId == <<"/", "p", "e", "t", "s", "/", "{", "i", "d", "}">>

P_orders == <<"/", "o", "r", "d", "e", "r", "s">>

S_listPets == <<"L", "i", "s", "t", " ", "p", "e", "t", "s">>

S_createPet == <<"C", "r", "e", "a", "t", "e", " ", "p", "e", "t">>

S_getPet == <<"G", "e", "t", " ", "p", "e", "t">>

S_searchOrders == <<"S", "e", "a", "r", "c", "h", " ", "o", "r", "d", "e", "r", "s">>

S_purge == <<"P", "u", "r", "g", "e">>

T_pets == <<"p", "e", "t", "s">>

T_store == <<"S", "t", "o", "r", "e">>

T_title == <<"T">>

N_limit == <<"l", "i", "m", "i", "t">>

N_id == <<"i", "d">>

N_name == <<"n", "a", "m", "e">>

N_tag == <<"t", "a", "g">>

N_body == <<"b", "o", "d", "y">>

N_file == <<"f", "i", "l", "e">>

JsonContent(schema) == <<MediaType("application/json", <<schema>>)>>

OkResponses == <<<<Response("200", <<>>)>>>>

PetSchema == ObjectSchema(<<Entry(N_id, TypeSchema("integer")), Entry(N_name, TypeSchema("string")), Entry(N_tag, RefSchema(SchemaRef("Tag")))>>, <<N_id>>)

TagSchema == ObjectSchema(<<Entry(N_name, TypeSchema("string"))>>, <<>>)

OpListPets == Operation(S_listPets, <<T_pets>>, <<Parameter(N_limit, "query")>>, <<>>, <<<<Response("200", JsonContent(ArraySchema(RefSchema(SchemaRef("Pet")))))>>>>, <<>>)

OpCreatePet == Operation(S_createPet, <<T_pets, T_store>>, <<>>, <<RequestBody(JsonContent(RefSchema(SchemaRef("Pet"))))>>, <<<<Response("201", <<>>), Response("400", <<>>)>>>>, <<"apiKey">>)

OpGetPet == Operation(S_getPet, <<T_pets>>, <<>>, <<>>, OkResponses, <<>>)

OpSearchOrders == Operation(S_searchOrders, <<>>, <<Parameter(N_limit, "query")>>, <<RequestBody(JsonContent(ObjectSchema(<<Entry(N_name, TypeSchema("string"))>>, <<N_name>>)))>>, OkResponses, <<>>)

OpPurge == [Operation(S_purge, <<T_store>>, <<>>, <<>>, OkResponses, <<>>) EXCEPT !.deprecated = TRUE]

OpenAPIDocument(info, paths, components) == Document(<<>>, V_3_0_0, info, paths, components, <<>>)

TheInfo == <<Info(T_title, <<"1">>)>>

DocPets == OpenAPIDocument(TheInfo, <<<<Entry(P_pets, PathItem(<<>>, <<Entry(K_get, OpListPets), Entry(K_post, OpCreatePet)>>)), Entry(P_petId, PathItem(<<Parameter(N_id, "path")>>, <<Entry(K_get, OpGetPet)>>))>>>>, <<Components(<<<<Entry("Pet", PetSchema), Entry("Tag", TagSchema), Entry("Legacy", TypeSchema("string"))>>>>, <<>>)>>)

DocOrders == [OpenAPIDocument(TheInfo, <<<<Entry(P_orders, PathItem(<<>>, <<Entry(K_delete, OpPurge), Entry(K_post, OpSearchOrders)>>))>>>>, <<>>) EXCEPT !.openapi = V_3_0_3]

\* A valid document that defines no operation.
DocEmptyPaths == OpenAPIDocument(TheInfo, <<<<>>>>, <<Components(<<<<Entry("Tag", TagSchema)>>>>, <<>>)>>)

\* Documents on which the load fails after the text has been parsed.
DocNoVersion == Document(<<>>, <<>>, TheInfo, <<<<Entry(P_pets, PathItem(<<>>, <<Entry(K_get, OpGetPet)>>))>>>>, <<>>, <<>>)

DocNoPaths == OpenAPIDocument(TheInfo, <<>>, <<Components(<<<<Entry("Tag", TagSchema)>>>>, <<>>)>>)

DocNoResponses == OpenAPIDocument(TheInfo, <<<<Entry(P_pets, PathItem(<<>>, <<Entry(K_get, [OpGetPet EXCEPT !.responses = <<>>])>>))>>>>, <<>>)

DocRefParameter == OpenAPIDocument(TheInfo, <<<<Entry(P_pets, PathItem(<<>>, <<Entry(K_get, [OpGetPet EXCEPT !.parameters = <<RefParameter(ParameterRef("Limit"))>>])>>))>>>>, <<>>)

DocNoInfo == OpenAPIDocument(<<>>, <<<<Entry(P_orders, PathItem(<<>>, <<Entry(K_get, OpGetPet)>>))>>>>, <<>>)

\* Swagger documents: 2.0 with a body parameter, 2.0 whose conversion
\* throws (formData after body), and a version that is not converted.
Swagger2Document(swagger, paths, definitions) == Document(swagger, <<>>, <<>>, paths, <<>>, definitions)

OpSwaggerCreate == Operation(S_createPet, <<T_pets>>, <<Parameter(N_limit, "query"), BodyParameter(N_body, RefSchema(DefinitionRef("Pet")))>>, <<>>, <<<<Swagger2Response("200", <<RefSchema(DefinitionRef("Pet"))>>)>>>>, <<"apiKey">>)

DocSwagger == Swagger2Document(V_2_0, <<<<Entry(P_pets, PathItem(<<>>, <<Entry(K_post, OpSwaggerCreate)>>))>>>>, <<<<Entry("Pet", TagSchema)>>>>)

DocSwaggerFormAfterBody == Swagger2Document(V_2_0, <<<<Entry(P_pets, PathItem(<<>>, <<Entry(K_post, [OpSwaggerCreate EXCEPT !.parameters = <<BodyParameter(N_body, TagSchema), Parameter(N_file, "formData")>>])>>))>>>>, <<>>)

DocSwaggerOld == Swagger2Document(V_1_2, <<<<>>>>, <<>>)

SessionDocuments == {DocPets, DocOrders, DocEmptyPaths, DocNoVersion, DocNoPaths, DocNoResponses, DocNoInfo, DocSwagger, DocSwaggerFormAfterBody, DocSwaggerOld}

Unparseable == Source("error", NullSpec)

SessionTexts == {Unparseable, Source("value", NullSpec), Source("value", ScalarSpec)} \cup {Source("value", d) : d \in SessionDocuments}

Fetched(fetch, source) == [value |-> source.value, parse |-> source.parse, fetch |-> fetch]

SessionUrls == {Fetched("failed", Unparseable), Fetched("notOk", Unparseable), Fetched("ok", Unparseable), Fetched("ok", Source("value", DocOrders))}

LoadArgs(texts, urls) == {[sourceType |-> "text", source |-> s] : s \in texts} \cup {[sourceType |-> "url", source |-> u] : u \in urls}

(***************************************************************************)
(* The stdio server: one tool call at a time (CallTool dispatcher, lines   *)
(* 400-451).  lastTool, lastArgs and lastResult record the latest call and *)
(* what it returned; successfulLoads counts the load_openapi_spec calls    *)
(* that have returned normally, up to MaxLoads.  pending is the set of the *)
(* load_openapi_spec calls of the HTTP server that await their fetch; it   *)
(* stays empty in the stdio server's specifications.                       *)
(***************************************************************************)
Init == /\ parserSpec = NullSpec
        /\ currentSpec = NullSpec
        /\ currentEndpoints = <<>>
        /\ successfulLoads = 0
        /\ lastTool = "none"
        /\ lastArgs = <<>>
        /\ lastResult = NoResult
        /\ pending = {}

QueryTools == {"get_api_overview", "search_endpoints", "get_endpoint_details", "generate_code_examples", "get_api_analytics", "validate_api_design", "export_documentation", "search_request_body_properties", "generate_typescript_types", "find_schema_dependencies", "validate_request_examples", "extract_auth_patterns", "generate_mock_data", "find_unused_schemas", "analyze_schema_evolution"}

\* A query tool call: the handler computes result and assigns no field.
Answer(tool, args, result) == /\ lastTool' = tool
                              /\ lastArgs' = args
                              /\ lastResult' = result
                              /\ UNCHANGED <<parserSpec, currentSpec, currentEndpoints, successfulLoads, pending>>

LoadOpenAPISpec(args) == \E out \in {loadOpenAPISpec(parserSpec, currentSpec, currentEndpoints, args)} :
                         /\ out.result.isError \/ successfulLoads < MaxLoads
                         /\ parserSpec' = out.parserSpec
                         /\ currentSpec' = out.currentSpec
                         /\ currentEndpoints' = out.currentEndpoints
                         /\ successfulLoads' = IF out.result.isError THEN successfulLoads ELSE successfulLoads + 1
                         /\ lastTool' = "load_openapi_spec"
                         /\ lastArgs' = args
                         /\ lastResult' = out.result
                         /\ pending' = pending

GetAPIOverview == Answer("get_api_overview", <<>>, getAPIOverview(parserSpec, currentSpec, currentEndpoints))

\* A search that kept its filtered list as the endpoint list.
SearchEndpointsStoring(args) == /\ lastTool' = "search_endpoints"
                                /\ lastArgs' = args
                                /\ lastResult' = searchEndpoints(currentEndpoints, args)
                                /\ currentEndpoints' = filterEndpoints(currentEndpoints, args)
                                /\ UNCHANGED <<parserSpec, currentSpec, successfulLoads, pending>>

SearchEndpoints(args) == Answer("search_endpoints", args, searchEndpoints(currentEndpoints, args))

GetEndpointDetails(args) == Answer("get_endpoint_details", args, getEndpointDetails(currentEndpoints, args))

GenerateCodeExamples(args) == Answer("generate_code_examples", args, generateCodeExamples(currentEndpoints, args))

GetAPIAnalytics(args) == Answer("get_api_analytics", args, getAPIAnalytics(currentEndpoints, args))

ValidateAPIDesign(args) == Answer("validate_api_design", args, validateAPIDesign(currentEndpoints, args))

ExportDocumentation(args) == Answer("export_documentation", args, exportDocumentation(currentSpec, currentEndpoints, args))

SearchRequestBodyProperties(args) == Answer("search_request_body_properties", args, searchRequestBodyProperties(currentSpec, currentEndpoints, args))

GenerateTypeScriptTypes(args) == Answer("generate_typescript_types", args, generateTypeScriptTypes(currentSpec, currentEndpoints, args))

FindSchemaDependencies(args) == Answer("find_schema_dependencies", args, findSchemaDependencies(currentSpec, args))

ValidateRequestExamples(args) == Answer("validate_request_examples", args, validateRequestExamples(currentSpec, currentEndpoints, args))

ExtractAuthPatterns(args) == Answer("extract_auth_patterns", args, extractAuthPatterns(currentSpec, currentEndpoints, args))

GenerateMockData(args) == \E result \in generateMockData(currentSpec, currentEndpoints, args) : Answer("generate_mock_data", args, result)

FindUnusedSchemas(args) == Answer("find_unused_schemas", args, findUnusedSchemas(currentSpec, args))

AnalyzeSchemaEvolution(args) == Answer("analyze_schema_evolution", args, analyzeSchemaEvolution(currentSpec, args))

\* Arguments the session's calls are made with.
NoFilter == [tags |-> <<>>, deprecated |-> <<>>, methods |-> <<>>, hasRequestBody |-> <<>>, complexity |-> <<>>, query |-> <<>>, hasParameters |-> <<>>]

SessionSearchArgs == {NoFilter, [NoFilter EXCEPT !.methods = <<K_post>>], [NoFilter EXCEPT !.query = T_pets], [NoFilter EXCEPT !.hasRequestBody = <<TRUE>>]}

SessionEndpointArgs == {[path |-> P_pets, method |-> K_get, language |-> "curl"], [path |-> P_orders, method |-> K_post, language |-> "cobol"]}

SessionSchemaNames == {"", "Pet", "Missing"}

SessionEndpoint(flag) == IF flag THEN <<>> ELSE <<[path |-> P_orders, method |-> toUpperCase(K_post)]>>

SessionSchemaName(flag) == IF flag THEN "" ELSE "Pet"

Query == \/ GetAPIOverview
         \/ \E args \in SessionSearchArgs : SearchEndpoints(args)
         \/ \E args \in SessionEndpointArgs : GetEndpointDetails(args)
         \/ \E args \in SessionEndpointArgs : GenerateCodeExamples(args)
         \/ \E flag \in BOOLEAN : GetAPIAnalytics([includeDistributions |-> flag])
         \/ \E focus \in {"all", "security", "speed"} : ValidateAPIDesign([focus |-> focus])
         \/ \E format \in {"markdown", "json", "pdf"} : ExportDocumentation([format |-> format])
         \/ \E flag \in BOOLEAN : SearchRequestBodyProperties([required |-> <<>>, methods |-> IF flag THEN <<>> ELSE <<<<toUpperCase(K_post)>>>>, propertyName |-> N_name, propertyType |-> ""])
         \/ \E flag \in BOOLEAN : GenerateTypeScriptTypes([includeResponses |-> TRUE, schemaName |-> SessionSchemaName(flag), includeRequestBodies |-> flag])
         \/ \E name \in SessionSchemaNames \ {""}, direction \in {"both", "upstream"} : FindSchemaDependencies([schemaName |-> name, depth |-> DefaultDepth, direction |-> direction])
         \/ \E flag \in BOOLEAN : ValidateRequestExamples([endpoint |-> SessionEndpoint(flag), strictMode |-> flag])
         \/ \E flag \in BOOLEAN : ExtractAuthPatterns([includeEndpointMapping |-> flag])
         \/ \E flag \in BOOLEAN, name \in SessionSchemaNames, format \in {"json", "yaml"} : GenerateMockData([endpoint |-> SessionEndpoint(flag), format |-> format, schemaName |-> name, count |-> 1])
         \/ \E flag \in BOOLEAN : FindUnusedSchemas([includeIndirectReferences |-> flag])
         \/ \E name \in SessionSchemaNames : AnalyzeSchemaEvolution([schemaName |-> name])

Next == \/ \E args \in LoadArgs(SessionTexts, SessionUrls) : LoadOpenAPISpec(args)
        \/ Query

Spec == Init /\ [][Next]_vars

(***************************************************************************)
(* Loading and querying in a session (Spec).                               *)
(***************************************************************************)
Loaded == lastTool = "load_openapi_spec" /\ ~lastResult.isError

FailedLoad == lastTool = "load_openapi_spec" /\ lastResult.isError

\* The document a load call's source parses to, on a parser of its own.
parsedSource(args) == checkAndConvert(args.source.value).spec

\* C1: a load_openapi_spec call that returns an error result (unparseable
\* source, no swagger/openapi member, an exception while the endpoints are
\* extracted) leaves currentSpec and currentEndpoints as they were.
C1_FailedLoadKeepsSession == [][FailedLoad' => (currentSpec' = currentSpec /\ currentEndpoints' = currentEndpoints)]_vars

\* C2: as long as no load_openapi_spec call has returned normally, every
\* query tool returns an error result.
C2_QueriesFailBeforeLoad == (successfulLoads = 0 /\ lastTool \in QueryTools) => lastResult.isError

\* C3: after a load of a document D that returned normally,
\* currentEndpoints is exactly the list extractEndpoints yields for D,
\* whatever was loaded, or failed to load, before.
C3_LoadReplacesEndpoints == Loaded => currentEndpoints = extractEndpoints(parsedSource(lastArgs)).value

\* A second successful load, of the two-operation orders document.
C3_ReloadedOrders == Loaded /\ successfulLoads = MaxLoads /\ lastArgs.source.value = DocOrders /\ Len(currentEndpoints) = 2

\* C4: a query tool call leaves currentSpec, currentEndpoints and the
\* parser's document unchanged.
C4_QueriesKeepSession == [][lastTool' \in QueryTools => UNCHANGED session]_vars

\* A search has answered with fewer endpoints than the session holds.
C4_SearchNarrowed == lastTool = "search_endpoints" /\ ~lastResult.isError /\ lastResult.text.found < Len(currentEndpoints)

(***************************************************************************)
(* Extraction on documents of every shape (SpecComplexity, SpecPaths): the *)
(* session only loads, from documents that differ in what the extraction   *)
(* reads.                                                                  *)
(***************************************************************************)
ParameterList(n, name, in) == [i \in 1..n |-> Parameter(name, in)]

ResponseList(r) == [i \in 1..r |-> Response(ToString(199 + i), <<>>)]

TagList(t) == SubSeq(<<T_pets, T_store>>, 1, t)

\* One POST operation with po parameters of its own under a path item with
\* pp parameters, a request body or none, r response codes, a security
\* requirement or none, and t tags.
ComplexityDocument(pp, po, b, r, s, t) == OpenAPIDocument(TheInfo, <<<<Entry(P_pets, PathItem(ParameterList(pp, N_id, "path"), <<Entry(K_post, Operation(S_createPet, TagList(t), ParameterList(po, N_limit, "query"), IF b THEN <<RequestBody(<<>>)>> ELSE <<>>, <<ResponseList(r)>>, IF s THEN <<"apiKey">> ELSE <<>>))>>))>>>>, <<>>)

ComplexityDocuments(maxPathParams, maxOpParams, maxResponses) == {ComplexityDocument(pp, po, b, r, s, t) : pp \in 0..maxPathParams, po \in 0..maxOpParams, b \in BOOLEAN, r \in 0..maxResponses, s \in BOOLEAN, t \in 1..2}

NextComplexity == \E args \in LoadArgs({Source("value", d) : d \in ComplexityDocuments(MaxPathParams, MaxOpParams, MaxResponses)}, {}) : LoadOpenAPISpec(args)

SpecComplexity == Init /\ [][NextComplexity]_vars

\* Up to MaxPaths distinct paths, three of which differ only in a character
\* that is not a letter or a digit; each path item declares one of a few
\* method lists, in an order of its own.
P_a_b == <<"/", "a", "/", "b">>

P_a_dash_b == <<"/", "a", "-", "b">>

P_a_underscore_b == <<"/", "a", "_", "b">>

P_a == <<"/", "a">>

PathCatalog == {P_a_b, P_a_dash_b, P_a_underscore_b, P_a}

MethodChoices == {<<>>, <<K_get>>, <<K_trace, K_get>>, <<K_post, K_delete, K_put>>, <<K_trace, K_head, K_options, K_patch, K_delete, K_put, K_post, K_get>>}

PathLists(maxPaths) == UNION {{paths \in [1..n -> PathCatalog] : \A i, j \in 1..n : paths[i] = paths[j] => i = j} : n \in 0..maxPaths}

PathDocument(paths, choice) == OpenAPIDocument(TheInfo, <<[i \in DOMAIN paths |-> Entry(paths[i], PathItem(<<>>, [m \in DOMAIN choice[i] |-> Entry(choice[i][m], OpGetPet)]))]>>, <<>>)

PathDocuments(maxPaths) == UNION {{PathDocument(paths, choice) : choice \in [DOMAIN paths -> MethodChoices]} : paths \in PathLists(maxPaths)}

NextPaths == \E args \in LoadArgs({Source("value", d) : d \in PathDocuments(MaxPaths)}, {}) : LoadOpenAPISpec(args)

SpecPaths == Init /\ [][NextPaths]_vars

\* The document of the latest load call.
loadedDocument == lastArgs.source.value

\* C5: no two endpoint records of a loaded document have the same id, also
\* when their paths differ only in characters that are not letters or digits.
C5_IdsAreUnique == \A i, j \in DOMAIN currentEndpoints : currentEndpoints[i].id = currentEndpoints[j].id => i = j

\* C6: after a load, currentEndpoints holds exactly one record for each
\* path and method for which the path item defines an operation and no
\* other record, in the order of the paths in the document and, within a
\* path, in the order get, post, put, delete, patch, options, head, trace.
C6_OneRecordPerOperation == Loaded => LET paths == loadedDocument.paths[1]
                                          order == <<K_get, K_post, K_put, K_delete, K_patch, K_options, K_head, K_trace>>
                                          declared == {d \in (DOMAIN paths) \X (DOMAIN order) : HasKey(paths[d[1]].value.operations, order[d[2]])}
                                          places(e) == {d \in declared : paths[d[1]].name = e.path /\ toUpperCase(order[d[2]]) = e.method}
                                      IN  /\ Len(currentEndpoints) = Cardinality(declared)
                                          /\ \A k \in DOMAIN currentEndpoints : places(currentEndpoints[k]) # {}
                                          /\ \A d \in declared : \E k \in DOMAIN currentEndpoints : d \in places(currentEndpoints[k])
                                          /\ \A k, l \in DOMAIN currentEndpoints : k < l => \A a \in places(currentEndpoints[k]), b \in places(currentEndpoints[l]) : a[1] < b[1] \/ (a[1] = b[1] /\ a[2] < b[2])

\* Two paths: the first declares trace before get, the second all eight
\* methods from trace back to get.
C6_DeclaredOutOfOrder == Loaded /\ Len(currentEndpoints) = 10 /\ loadedDocument.paths[1][1].value.operations[1].name = K_trace /\ currentEndpoints[1].method = toUpperCase(K_get) /\ currentEndpoints[2].method = toUpperCase(K_trace)

\* 5p + 20b + 3r + 10s + 5t for the operation of record e in the loaded
\* document: p parameters of the path item and the operation together,
\* b a request body, r response codes, s a security requirement, t more
\* than one tag.
weightedSum(e) == LET item == Lookup(loadedDocument.paths[1], e.path)
                      op == Lookup(item.operations, toLowerCase(e.method))
                  IN  5 * (Len(item.parameters) + Len(op.parameters)) + (IF op.requestBody # <<>> THEN 20 ELSE 0) + 3 * Len(op.responses[1]) + (IF op.security # <<>> THEN 10 ELSE 0) + (IF Len(op.tags) > 1 THEN 5 ELSE 0)

\* C7: the complexity of an endpoint is low when 5p + 20b + 3r + 10s + 5t
\* is at most 20, medium when it is in 21..50, and high otherwise.
C7_ComplexityThresholds == Loaded => \A k \in DOMAIN currentEndpoints : currentEndpoints[k].complexity = (IF weightedSum(currentEndpoints[k]) <= 20 THEN "low" ELSE IF weightedSum(currentEndpoints[k]) <= 50 THEN "medium" ELSE "high")

\* A sum of exactly 20, one of the four parameters being the path item's.
C7_LowAtTwenty == Loaded /\ \E k \in DOMAIN currentEndpoints : weightedSum(currentEndpoints[k]) = 20 /\ Len(currentEndpoints[k].parameters) = 4 /\ Len(loadedDocument.paths[1][1].value.parameters) = 1 /\ currentEndpoints[k].complexity = "low"

SixParametersAndBody(e) == Len(e.parameters) = 6 /\ e.requestBody # <<>>

\* C8 as stated: every endpoint with 6 merged parameters and a request body
\* is of complexity high, whatever its response codes, security and tags.
C8_SixParametersAndBodyIsHigh == \A k \in DOMAIN currentEndpoints : SixParametersAndBody(currentEndpoints[k]) => currentEndpoints[k].complexity = "high"

\* C8 amended: an endpoint with 6 merged parameters and a request body is of
\* complexity high when it declares at least one response code, has a
\* security requirement or has more than one tag, and medium when it has
\* none of these.
C8_HighUnlessNothingElse == \A k \in DOMAIN currentEndpoints : SixParametersAndBody(currentEndpoints[k]) => currentEndpoints[k].complexity = (IF Len(currentEndpoints[k].responseTypes) >= 1 \/ Len(currentEndpoints[k].security) > 0 \/ Len(currentEndpoints[k].tags) > 1 THEN "high" ELSE "medium")

\* Six parameters, a request body and an empty responses map.
C8_MediumWithoutResponses == Loaded /\ \E k \in DOMAIN currentEndpoints : SixParametersAndBody(currentEndpoints[k]) /\ currentEndpoints[k].responseTypes = <<>> /\ currentEndpoints[k].complexity = "medium"

(***************************************************************************)
(* Searching the endpoints of a loaded document (SpecSearch).              *)
(***************************************************************************)
D_petOrders == <<"P", "e", "t", " ", "o", "r", "d", "e", "r", "s">>

Q_PET == <<"P", "E", "T">>

Q_store == <<"s", "t", "o", "r", "e">>

P_c == <<"/", "c">>

OpListOrders == [Operation(<<>>, <<T_store>>, <<>>, <<>>, OkResponses, <<>>) EXCEPT !.description = D_petOrders, !.deprecated = TRUE]

OpBulkOrders == [OpSearchOrders EXCEPT !.parameters = ParameterList(6, N_limit, "query")]

\* Three GET and two POST endpoints.
DocStore == OpenAPIDocument(TheInfo, <<<<Entry(P_pets, PathItem(<<>>, <<Entry(K_post, OpCreatePet), Entry(K_get, OpListPets)>>)), Entry(P_orders, PathItem(<<>>, <<Entry(K_get, OpListOrders), Entry(K_post, OpBulkOrders)>>)), Entry(P_petId, PathItem(<<Parameter(N_id, "path")>>, <<Entry(K_get, OpGetPet)>>))>>>>, <<>>)

\* Twenty-four endpoints, more than one answer lists.
DocWide == PathDocument(<<P_a, P_a_b, P_c>>, [i \in 1..3 |-> <<K_get, K_post, K_put, K_delete, K_patch, K_options, K_head, K_trace>>])

SearchDocuments == {DocStore, DocWide}

Optional(values) == {<<>>} \cup {<<v>> : v \in values}

SearchArgs == {[tags |-> tags, deprecated |-> deprecated, methods |-> methods, hasRequestBody |-> hasRequestBody, complexity |-> complexity, query |-> query, hasParameters |-> hasParameters] : tags \in {<<>>, <<T_store, T_title>>}, deprecated \in Optional({TRUE}), methods \in {<<>>, <<toUpperCase(K_get)>>}, hasRequestBody \in Optional({TRUE}), complexity \in {<<>>, <<"medium", "high">>}, query \in {<<>>, Q_PET, Q_store}, hasParameters \in Optional(BOOLEAN)}

NextSearch == \/ \E args \in LoadArgs({Source("value", d) : d \in SearchDocuments}, {}) : LoadOpenAPISpec(args)
              \/ \E args \in SearchArgs : SearchEndpoints(args)

SpecSearch == Init /\ [][NextSearch]_vars

\* The text of the query occurs in s, letter case aside.
occursIn(query, s) == \E i \in 1..Len(s), j \in 0..Len(s) : j - i + 1 = Len(query) /\ toLowerCase(SubSeq(s, i, j)) = toLowerCase(query)

\* Record e satisfies every filter that args supplies.
satisfiesFilters(e, args) == /\ args.query = <<>> \/ occursIn(args.query, e.path) \/ occursIn(args.query, e.summary) \/ occursIn(args.query, e.description) \/ \E t \in DOMAIN e.tags : occursIn(args.query, e.tags[t])
                             /\ args.methods = <<>> \/ \E m \in DOMAIN args.methods : args.methods[m] = e.method
                             /\ args.tags = <<>> \/ \E t \in DOMAIN e.tags, u \in DOMAIN args.tags : e.tags[t] = args.tags[u]
                             /\ args.complexity = <<>> \/ \E c \in DOMAIN args.complexity : args.complexity[c] = e.complexity
                             /\ args.deprecated = <<>> \/ args.deprecated[1] = e.deprecated
                             /\ args.hasParameters = <<>> \/ args.hasParameters[1] = (e.parameters # <<>>)
                             /\ args.hasRequestBody = <<>> \/ args.hasRequestBody[1] = (e.requestBody # <<>>)

\* C9: search_endpoints finds exactly the endpoint records that satisfy
\* every filter its arguments supply (the query as a substring of the path,
\* the summary, the description or a tag, letter case aside; the method, a
\* tag and the complexity in the given sets; deprecated, hasParameters and
\* hasRequestBody equal to the given booleans), an absent or empty filter
\* excluding nothing, and lists them in the order of the endpoint list, up
\* to ResultLimit of them.
C9_SearchMatchesEveryFilter == (lastTool = "search_endpoints" /\ ~lastResult.isError) => LET matching == SelectSeq(currentEndpoints, LAMBDA e : satisfiesFilters(e, lastArgs))
                                                                                          IN  /\ lastResult.text.found = Len(matching)
                                                                                              /\ Len(lastResult.text.results) = (IF Len(matching) < ResultLimit THEN Len(matching) ELSE ResultLimit)
                                                                                              /\ \A i \in DOMAIN lastResult.text.results : lastResult.text.results[i] = renderEndpoint(matching[i])

\* methods ['GET'] and a query on three GET and two POST endpoints, the
\* query excluding one of the GET endpoints.
C9_GetOfThreeGetTwoPost == /\ lastTool = "search_endpoints"
                           /\ Len(currentEndpoints) = 5
                           /\ Count(currentEndpoints, LAMBDA e : e.method = toUpperCase(K_get)) = 3
                           /\ Count(currentEndpoints, LAMBDA e : e.method = toUpperCase(K_post)) = 2
                           /\ lastArgs = [NoFilter EXCEPT !.methods = <<toUpperCase(K_get)>>, !.query = Q_store]
                           /\ lastResult.text.found = 1

(***************************************************************************)
(* Unused schemas of a loaded document (SpecUnused).  The documents define *)
(* the schemas A, B and C; a path refers to A, to the response C or to     *)
(* nothing, A to B or to itself, B to C.                                   *)
(***************************************************************************)
RefChoice(refs) == {TypeSchema("string")} \cup {ObjectSchema(<<Entry(N_name, RefSchema(r))>>, <<>>) : r \in refs}

UnusedDocument(pathRef, a, b, responses) == OpenAPIDocument(TheInfo, <<<<Entry(P_pets, PathItem(<<>>, <<Entry(K_get, [OpGetPet EXCEPT !.responses = <<<<Response("200", <<>>), RefResponse("404", pathRef)>>>>])>>))>>>>, <<Components(<<<<Entry("A", a), Entry("B", b), Entry("C", TypeSchema("string"))>>>>, responses)>>)

UnusedDocuments == {UnusedDocument(pathRef, a, b, responses) : pathRef \in {NoRef, SchemaRef("A"), ResponseRef("C")}, a \in RefChoice({SchemaRef("A"), SchemaRef("B")}), b \in RefChoice({SchemaRef("C")}), responses \in {<<>>, <<Response("C", <<>>)>>}}

NextUnused == \/ \E args \in LoadArgs({Source("value", d) : d \in UnusedDocuments}, {}) : LoadOpenAPISpec(args)
              \/ \E flag \in BOOLEAN : FindUnusedSchemas([includeIndirectReferences |-> flag])

SpecUnused == Init /\ [][NextUnused]_vars

\* The schemas that $ref strings of the set refs name.
schemaTargets(refs) == {name \in Keys(schemasOf(currentSpec)[1]) : SchemaRef(name) \in refs}

\* The schemas a chain of $ref strings leads to from the set of schemas from.
RECURSIVE reachableFrom(_)

reachableFrom(from) == LET more == from \cup schemaTargets(UNION {refsInSchema(Lookup(schemasOf(currentSpec)[1], name)) : name \in from})
                       IN  IF more = from THEN from ELSE reachableFrom(more)

\* C10: with includeIndirectReferences true, find_unused_schemas reports
\* no schema as unused that a chain of $ref strings reaches from the paths;
\* and whatever the flag, it reports as unused every schema that no $ref
\* string of the document has as its target.
C10_UnusedSchemasReport == (lastTool = "find_unused_schemas" /\ ~lastResult.isError) => /\ lastArgs.includeIndirectReferences => lastResult.text.unusedSchemas \cap reachableFrom(schemaTargets(refsInPaths(currentSpec.paths[1]))) = {}
                                                                                        /\ \A name \in Keys(schemasOf(currentSpec)[1]) : name \notin schemaTargets(refsInPaths(currentSpec.paths[1]) \cup refsInComponents(currentSpec.components[1])) => name \in lastResult.text.unusedSchemas

(***************************************************************************)
(* Dependencies between the schemas of a loaded document                   *)
(* (SpecDependencies).  The documents define the schemas A, B, C and D,    *)
(* each an object whose properties refer to the schemas of a list, in the  *)
(* order of the list; a path refers to A or to nothing.                    *)
(***************************************************************************)
RefProperties(targets) == ObjectSchema([i \in DOMAIN targets |-> Entry(<<N_id, N_name>>[i], RefSchema(SchemaRef(targets[i])))], <<>>)

DependencyDocument(pathRef, a, b, c, d) == OpenAPIDocument(TheInfo, <<<<Entry(P_pets, PathItem(<<>>, <<Entry(K_get, [OpGetPet EXCEPT !.responses = <<<<Response("200", <<>>), RefResponse("404", pathRef)>>>>])>>))>>>>, <<Components(<<<<Entry("A", RefProperties(a)), Entry("B", RefProperties(b)), Entry("C", RefProperties(c)), Entry("D", IF d = <<>> THEN TypeSchema("string") ELSE ArraySchema(RefSchema(SchemaRef(d[1]))))>>>>, <<>>)>>)

DependencyDocuments == {DependencyDocument(pathRef, a, b, c, d) : pathRef \in {NoRef, SchemaRef("A")}, a \in {<<"B", "C">>, <<"C", "B">>, <<"A">>, <<"B">>}, b \in {<<>>, <<"C">>, <<"A">>}, c \in {<<>>, <<"D">>}, d \in {<<>>, <<"Missing">>, <<"B">>}}

Directions == {"dependencies", "dependents", "both"}

DependencyDepths == {0, 2, DefaultDepth}

DependencyArgs == {[schemaName |-> name, depth |-> depth, direction |-> direction] : name \in {"A", "B"}, direction \in Directions \cup {"upstream"}, depth \in DependencyDepths} \cup {[schemaName |-> "Missing", depth |-> DefaultDepth, direction |-> "both"]}

NextDependencies == \/ \E args \in LoadArgs({Source("value", d) : d \in DependencyDocuments}, {}) : LoadOpenAPISpec(args)
                    \/ \E args \in DependencyArgs : FindSchemaDependencies(args)
                    \/ \E flag \in BOOLEAN : FindUnusedSchemas([includeIndirectReferences |-> flag])

SpecDependencies == Init /\ [][NextDependencies]_vars

\* The schemas of the loaded document that a chain of $ref strings reaches
\* from its paths.
reachableFromPaths == reachableFrom(schemaTargets(refsInPaths(currentSpec.paths[1])))

\* The dependents find_schema_dependencies computes for schema name, at
\* depth depth.
dependentsComputed(name, depth) == findSchemaDependencies(currentSpec, [schemaName |-> name, depth |-> depth, direction |-> "dependents"]).text.dependents

\* C11: find_unused_schemas lists no schema S as unused that has, among
\* the dependents find_schema_dependencies computes for S, a schema that
\* is reachable from the paths; whatever includeIndirectReferences is.
C11_DependenciesOfReachableAreUsed == (lastTool = "find_unused_schemas" /\ ~lastResult.isError) => \A name \in Keys(schemasOf(currentSpec)[1]), depth \in DependencyDepths : (\E x \in DOMAIN dependentsComputed(name, depth) : dependentsComputed(name, depth)[x] \in reachableFromPaths) => name \notin lastResult.text.unusedSchemas

\* includeIndirectReferences false; the paths refer to A, and D is two or
\* three references away from A.
C11_IndirectDependencyKept == /\ lastTool = "find_unused_schemas"
                              /\ ~lastResult.isError
                              /\ ~lastArgs.includeIndirectReferences
                              /\ "A" \in reachableFromPaths
                              /\ has(dependentsComputed("D", DefaultDepth), "A")
                              /\ "D" \notin schemaTargets(refsInPaths(currentSpec.paths[1]))
                              /\ "D" \notin lastResult.text.unusedSchemas

(***************************************************************************)
(* Examples checked against schemas (SpecExamples).  Each document has one *)
(* POST operation whose JSON request body, or whose response, has a schema *)
(* and an example.                                                         *)
(***************************************************************************)
ExampleSchemas == {TypeSchema("string"), TypeSchema("integer"), ObjectSchema(<<Entry(N_name, TypeSchema("string")), Entry(N_tag, ArraySchema(TypeSchema("string")))>>, <<N_name>>), ObjectSchema(<<Entry(N_name, TypeSchema("string"))>>, <<>>), ArraySchema(TypeSchema("integer")), RefSchema(SchemaRef("Tag")), RefSchema(SchemaRef("Missing"))}

Examples == {JsonNull, JsonString(0), JsonString(2), JsonNumber(0), JsonNumber(5), JsonObject(<<>>), JsonObject(<<Entry(N_name, JsonString(1))>>), JsonObject(<<Entry(N_name, JsonNumber(5)), Entry(N_tag, JsonString(3)), Entry(N_id, JsonNull)>>), JsonArray(<<>>), JsonArray(<<JsonNumber(1), JsonString(1)>>), JsonArray(<<JsonArray(<<JsonObject(<<>>)>>)>>)}

ExampleDocument(schema, example, inResponse) == OpenAPIDocument(TheInfo, <<<<Entry(P_pets, PathItem(<<>>, <<Entry(K_post, Operation(S_createPet, <<>>, <<>>, IF inResponse THEN <<>> ELSE <<RequestBody(<<MediaTypeWithExample("application/json", schema, example)>>)>>, <<<<Response("200", IF inResponse THEN <<MediaTypeWithExample("application/json", schema, example)>> ELSE <<>>)>>>>, <<>>))>>))>>>>, <<Components(<<<<Entry("Tag", TagSchema)>>>>, <<>>)>>)

ExampleDocuments == {ExampleDocument(schema, example, inResponse) : schema \in ExampleSchemas, example \in Examples, inResponse \in BOOLEAN}

NextExamples == \/ \E args \in LoadArgs({Source("value", d) : d \in ExampleDocuments}, {}) : LoadOpenAPISpec(args)
                \/ \E flag \in BOOLEAN : ValidateRequestExamples([endpoint |-> <<>>, strictMode |-> flag])

SpecExamples == Init /\ [][NextExamples]_vars

\* C12: with a document loaded, validate_request_examples returns a normal
\* result whatever the shape of the examples: a mismatch between an
\* example and its schema is among the violation records of the result.
C12_ExamplesNeverRaise == (lastTool = "validate_request_examples" /\ currentSpec.kind # "null") => ~lastResult.isError

(***************************************************************************)
(* Swagger 2.0 operations with a body parameter (SpecSwagger).  Each       *)
(* document has one POST operation whose parameters are a body parameter   *)
(* and the query and formData parameters before and after it.              *)
(***************************************************************************)
BodySchemas == {TypeSchema("string"), RefSchema(DefinitionRef("Pet")), ArraySchema(RefSchema(DefinitionRef("Pet"))), ObjectSchema(<<Entry(N_id, TypeSchema("integer")), Entry(N_tag, RefSchema(DefinitionRef("Pet")))>>, <<N_id, N_tag>>), ObjectSchema(<<Entry(N_name, ObjectSchema(<<Entry(N_id, TypeSchema("string"))>>, <<N_id>>))>>, <<>>)}

ParametersAround == {[before |-> <<>>, after |-> <<>>], [before |-> <<Parameter(N_limit, "query")>>, after |-> <<>>], [before |-> <<>>, after |-> <<Parameter(N_limit, "query")>>], [before |-> <<Parameter(N_file, "formData")>>, after |-> <<>>], [before |-> <<>>, after |-> <<Parameter(N_file, "formData")>>], [before |-> <<Parameter(N_limit, "query"), Parameter(N_file, "formData")>>, after |-> <<Parameter(N_id, "query")>>]}

BodyDocument(schema, around, responses, definitions) == Swagger2Document(V_2_0, <<<<Entry(P_pets, PathItem(<<>>, <<Entry(K_post, [OpSwaggerCreate EXCEPT !.parameters = around.before \o <<BodyParameter(N_body, schema)>> \o around.after, !.responses = responses])>>))>>>>, definitions)

BodyDocuments == {BodyDocument(schema, around, responses, definitions) : schema \in BodySchemas, around \in ParametersAround, responses \in {OkResponses, <<<<Swagger2Response("200", <<RefSchema(DefinitionRef("Pet"))>>)>>>>}, definitions \in {<<>>, <<<<Entry("Pet", TagSchema)>>>>}}

NextSwagger == \E args \in LoadArgs({Source("value", d) : d \in BodyDocuments}, {}) : LoadOpenAPISpec(args)

SpecSwagger == Init /\ [][NextSwagger]_vars

RECURSIVE sameStructure(_, _)

\* Two schemas have the same type, the same required list and the same
\* property names, with properties of the same structure.
sameStructure(a, b) == /\ a.type = b.type
                       /\ a.required = b.required
                       /\ Len(a.properties) = Len(b.properties)
                       /\ \A i \in DOMAIN a.properties : a.properties[i].name = b.properties[i].name /\ sameStructure(a.properties[i].value, b.properties[i].value)

\* The POST operation of a document of this specification.
postOperation(document) == Lookup(Lookup(document.paths[1], P_pets).operations, K_post)

bodyParameters(operation) == SelectSeq(operation.parameters, LAMBDA p : p.in = "body")

\* C13: loading a Swagger 2.0 document whose operation has one body
\* parameter yields an operation with one requestBody, whose
\* content['application/json'].schema has the type, the property names and
\* types and the required list of the body parameter's schema, and without
\* the body parameter among its parameters.
C13_BodyParameterBecomesRequestBody == (lastTool = "load_openapi_spec" /\ Len(bodyParameters(postOperation(loadedDocument))) = 1) => /\ ~lastResult.isError
                                                                                                                                     /\ Len(postOperation(currentSpec).requestBody) = 1
                                                                                                                                     /\ HasKey(postOperation(currentSpec).requestBody[1].content, "application/json")
                                                                                                                                     /\ sameStructure(bodyParameters(postOperation(loadedDocument))[1].schema[1], Lookup(postOperation(currentSpec).requestBody[1].content, "application/json").schema[1])
                                                                                                                                     /\ bodyParameters(postOperation(currentSpec)) = <<>>

\* The latest call was a load whose content was parsed.
LoadedParsedContent == lastTool = "load_openapi_spec" /\ lastArgs.source.parse = "value" /\ (lastArgs.sourceType = "url" => lastArgs.source.fetch = "ok")

\* C14: after a load of parsed content, the parser holds a document with
\* openapi = '3.0.0' when the content's swagger starts with '2.'; otherwise
\* it holds the parsed document unchanged when the content has an openapi
\* field; otherwise the load has failed.  And currentSpec, when it is not
\* null, has an openapi field.
C14_OutcomeFollowsDiscriminator == /\ LoadedParsedContent => IF startsWith(swaggerOf(loadedDocument), <<"2", ".">>) THEN parserSpec.kind = "doc" /\ parserSpec.openapi = V_3_0_0 ELSE IF openapiOf(loadedDocument) # <<>> THEN parserSpec = loadedDocument ELSE lastResult.isError
                                   /\ currentSpec.kind # "null" => openapiOf(currentSpec) # <<>>

\* Whether the loaded document has an operation with this method at this path.
endpointExists(method, path) == \E i \in DOMAIN currentEndpoints : toLowerCase(currentEndpoints[i].method) = toLowerCase(method) /\ currentEndpoints[i].path = path

\* Whether the loaded document has a schema of this name under components.schemas.
schemaExists(name) == currentSpec.kind = "doc" /\ schemasOf(currentSpec) # <<>> /\ HasKey(schemasOf(currentSpec)[1], name)

\* The latest call named an endpoint that does not exist.
NamedMissingEndpoint == \/ lastTool \in {"get_endpoint_details", "generate_code_examples"} /\ ~endpointExists(lastArgs.method, lastArgs.path)
                        \/ lastTool = "generate_mock_data" /\ lastArgs.schemaName = "" /\ lastArgs.endpoint # <<>> /\ ~endpointExists(lastArgs.endpoint[1].method, lastArgs.endpoint[1].path)
                        \/ lastTool = "validate_request_examples" /\ lastArgs.endpoint # <<>> /\ ~endpointExists(lastArgs.endpoint[1].method, lastArgs.endpoint[1].path)

\* The latest call named a schema that does not exist.
NamedMissingSchema == lastTool \in {"find_schema_dependencies", "analyze_schema_evolution", "generate_mock_data"} /\ lastArgs.schemaName # "" /\ ~schemaExists(lastArgs.schemaName)

\* C15: a tool that is given the name of an endpoint or of a schema that
\* the loaded document does not have returns an error result:
\* get_endpoint_details, generate_code_examples, find_schema_dependencies,
\* generate_mock_data, analyze_schema_evolution, and validate_request_examples
\* called with an endpoint filter that matches no endpoint.
C15_MissingNamesAreErrors == (NamedMissingEndpoint \/ NamedMissingSchema) => lastResult.isError

\* The values the tool list declares for each enumerated argument
\* (inputSchema enum, lines 143, 173, 188, 281 and 357).
Focuses == {"security", "performance", "design", "documentation", "all"}

ExportFormats == {"markdown", "json", "summary"}

MockFormats == {"json", "javascript", "typescript"}

\* The latest call gave an enumerated argument a value outside its set.
OutsideEnum == \/ lastTool = "generate_code_examples" /\ lastArgs.language \notin Languages
               \/ lastTool = "export_documentation" /\ lastArgs.format \notin ExportFormats
               \/ lastTool = "validate_api_design" /\ lastArgs.focus \notin Focuses
               \/ lastTool = "find_schema_dependencies" /\ lastArgs.direction \notin Directions
               \/ lastTool = "generate_mock_data" /\ lastArgs.format \notin MockFormats

\* C16: a call that gives an enumerated argument (language of
\* generate_code_examples, format of export_documentation, focus of
\* validate_api_design, direction of find_schema_dependencies, format of
\* generate_mock_data) a value outside its declared set returns an error
\* result; the value is never treated as one of the members.
C16_UnknownEnumValuesAreErrors == OutsideEnum => lastResult.isError

(***************************************************************************)
(* The HTTP server (src/mcp/http-server.ts).  Each POST /mcp/tools/call    *)
(* runs handleCallTool in its own async request handler.  A handler runs   *)
(* without interruption up to its first await of an unsettled promise; the *)
(* only such await is fetch in OpenAPIParser.parseFromUrl (part_001 line   *)
(* 41).  While a load awaits its fetch the event loop serves the other     *)
(* requests.                                                               *)
(***************************************************************************)
\* The loads that may await their fetch at the same time.
MaxPending == 2

\* The names of the README tool table (README.md lines 54-69).
ReadmeTools == {"load_openapi_spec", "get_api_overview", "search_endpoints", "get_endpoint_details", "generate_code_examples", "get_api_analytics", "validate_api_design", "export_documentation", "search_request_body_properties", "generate_typescript_types", "find_schema_dependencies", "validate_request_examples", "extract_auth_patterns", "generate_mock_data", "find_unused_schemas", "analyze_schema_evolution"}

\* The case labels of the stdio CallTool handler (part_000 lines 400-451).
StdioTools == {"load_openapi_spec"} \cup QueryTools

\* The case labels of handleCallTool (lines 474-505).
HttpTools == {"load_openapi_spec", "get_api_overview", "search_endpoints", "get_endpoint_details", "generate_code_examples", "get_api_analytics", "validate_api_design", "export_documentation"}

\* handleListTools (lines 445-472): the names of the tools it returns.
handleListTools == {"load_openapi_spec"}

\* getAPIOverview of the HTTP server (lines 575-618).
httpGetAPIOverview(parser, spec, endpoints) == IF spec.kind = "null" \/ Len(endpoints) = 0 THEN Failure(NotLoadedMessage) ELSE The({IF tags.threw \/ spec.info = <<>> THEN Failure("TypeError") ELSE Normal([tags |-> tags.value, title |-> spec.info[1].title, totalEndpoints |-> generateAnalytics(endpoints).totalEndpoints]) : tags \in {getAllTags(parser)}})

\* getEndpointDetails of the HTTP server (lines 709-756).
httpGetEndpointDetails(endpoints, args) == IF Len(endpoints) = 0 THEN Failure(NotLoadedMessage) ELSE The({IF found = {} THEN Failure("Endpoint not found") ELSE The({Normal([responses |-> [i \in DOMAIN endpoint.responses |-> endpoint.responses[i].name], endpoint |-> renderEndpoint(endpoint)]) : endpoint \in {endpoints[first(found)]}}) : found \in {findEndpoint(endpoints, args.method, args.path)}})

\* validateAPIDesign of the HTTP server (lines 858-905).
httpValidateAPIDesign(endpoints, args) == IF Len(endpoints) = 0 THEN Failure(NotLoadedMessage) ELSE The({Normal([focus |-> args.focus, recommendations |-> IF recommendations = <<>> THEN <<"great-job">> ELSE recommendations]) : recommendations \in {(IF args.focus \in {"security", "all"} /\ generateAnalytics(endpoints).securitySchemes = {} THEN <<"no-security-schemes">> ELSE <<>>) \o (IF args.focus \in {"documentation", "all"} /\ Count(endpoints, LAMBDA e : e.summary = <<>> /\ e.description = <<>>) > 0 THEN <<"undocumented-endpoints">> ELSE <<>>)}})

\* exportDocumentation of the HTTP server (lines 907-966): a summary, or
\* markdown with the first 10 endpoints.
httpExportDocumentation(spec, endpoints, args) == IF spec.kind = "null" \/ Len(endpoints) = 0 THEN Failure(NotLoadedMessage) ELSE IF spec.info = <<>> THEN Failure("TypeError") ELSE Normal([title |-> spec.info[1].title, endpoints |-> [i \in DOMAIN slice(endpoints, IF args.format = "summary" THEN Len(endpoints) ELSE 10) |-> <<endpoints[i].method, endpoints[i].path>>], format |-> IF args.format = "summary" THEN "summary" ELSE "markdown"])

\* handleCallTool (lines 474-505) for the tools that assign no field.
handleCallTool(name, args, parser, spec, endpoints) == CASE name = "get_api_overview" -> httpGetAPIOverview(parser, spec, endpoints)
                                                         [] name = "search_endpoints" -> searchEndpoints(endpoints, args)
                                                         [] name = "get_endpoint_details" -> httpGetEndpointDetails(endpoints, args)
                                                         [] name = "generate_code_examples" -> generateCodeExamples(endpoints, args)
                                                         [] name = "get_api_analytics" -> getAPIAnalytics(endpoints, args)
                                                         [] name = "validate_api_design" -> httpValidateAPIDesign(endpoints, args)
                                                         [] name = "export_documentation" -> httpExportDocumentation(spec, endpoints, args)
                                                         [] OTHER -> Failure("Unknown tool")

\* POST /mcp/tools/list (lines 76-83).
HttpListTools == Answer("tools/list", <<>>, Normal(handleListTools))

\* POST /mcp/tools/call (lines 85-93) for a tool other than
\* load_openapi_spec: the handler runs to its end in one step.
HttpCallTool(name, args) == name # "load_openapi_spec" /\ Answer(name, args, handleCallTool(name, args, parserSpec, currentSpec, currentEndpoints))

\* load_openapi_spec with text (lines 528-573): no await suspends it.
HttpLoadText(args) == args.sourceType = "text" /\ LoadOpenAPISpec(args)

\* load_openapi_spec with a url, up to "await fetch(url, ...)".
HttpStartFetch(args) == /\ args.sourceType = "url"
                        /\ args \notin pending
                        /\ Cardinality(pending) < MaxPending
                        /\ pending' = pending \cup {args}
                        /\ UNCHANGED <<parserSpec, currentSpec, currentEndpoints, successfulLoads, lastTool, lastArgs, lastResult>>

\* The fetch of a waiting load settles: the rest of parseFromUrl and of
\* loadOpenAPISpec runs on the session as it is by then.
HttpFinishFetch(args) == \E out \in {loadOpenAPISpec(parserSpec, currentSpec, currentEndpoints, args)} :
                         /\ args \in pending
                         /\ out.result.isError \/ successfulLoads < MaxLoads
                         /\ parserSpec' = out.parserSpec
                         /\ currentSpec' = out.currentSpec
                         /\ currentEndpoints' = out.currentEndpoints
                         /\ successfulLoads' = IF out.result.isError THEN successfulLoads ELSE successfulLoads + 1
                         /\ lastTool' = "load_openapi_spec"
                         /\ lastArgs' = args
                         /\ lastResult' = out.result
                         /\ pending' = pending \ {args}

HttpTexts == {Unparseable, Source("value", DocPets)}

HttpUrls == {Fetched("failed", Unparseable), Fetched("ok", Source("value", DocOrders))}

NextHttp == \/ HttpListTools
            \/ \E args \in LoadArgs(HttpTexts, {}) : HttpLoadText(args)
            \/ \E args \in LoadArgs({}, HttpUrls) : HttpStartFetch(args)
            \/ \E args \in pending : HttpFinishFetch(args)
            \/ HttpCallTool("get_api_overview", <<>>)
            \/ HttpCallTool("search_endpoints", NoFilter)
            \/ \E name \in {"get_endpoint_details", "generate_code_examples"}, args \in SessionEndpointArgs : HttpCallTool(name, args)
            \/ HttpCallTool("get_api_analytics", [includeDistributions |-> TRUE])
            \/ HttpCallTool("validate_api_design", [focus |-> "all"])
            \/ \E format \in {"summary", "markdown"} : HttpCallTool("export_documentation", [format |-> format])
            \/ \E name \in ReadmeTools \ HttpTools : HttpCallTool(name, <<>>)

SpecHttp == Init /\ [][NextHttp]_vars

\* C17: in the HTTP server a tool invocation runs to completion before any
\* other one starts: while a load_openapi_spec with sourceType 'url' awaits
\* its fetch, the only step taken is that load's completion, so that no
\* other call observes or modifies the session in between.
C17_CallsRunOneAtATime == [][pending # {} => (pending' = {} /\ lastTool' = "load_openapi_spec" /\ lastArgs' \in pending)]_vars

\* C18: every tool of the README table is dispatched by both transports
\* (none is answered with 'Unknown tool'), and tools/list of the HTTP server
\* names exactly the tools its dispatcher accepts.
C18_ReadmeToolsDispatched == /\ ReadmeTools \subseteq StdioTools
                             /\ lastTool \in ReadmeTools => ~(lastResult.isError /\ lastResult.text = "Unknown tool")
                             /\ lastTool = "tools/list" => lastResult.text = HttpTools

\* The names the schemas of a set refer to: one $ref hop.
hopTargets(names) == refNames(UNION {refsInSchema(Lookup(schemasOf(currentSpec)[1], name)) : name \in names \cap Keys(schemasOf(currentSpec)[1])})

RECURSIVE withinHops(_, _)

\* The names that a chain of at least one and at most d $ref hops reaches.
withinHops(from, d) == IF d = 0 THEN {} ELSE hopTargets(from) \cup withinHops(hopTargets(from), d - 1)

\* C19: find_schema_dependencies with direction 'dependencies' and depth d
\* returns exactly the names that a chain of at most d $ref hops reaches
\* from the schema, whatever the order of the properties: a schema first met
\* at the depth limit of a long chain and also referenced by a short chain
\* still has its references followed.
C19_DependenciesWithinDepth == (lastTool = "find_schema_dependencies" /\ lastArgs.direction = "dependencies" /\ ~lastResult.isError) => Range(lastResult.text.dependencies) = withinHops({lastArgs.schemaName}, lastArgs.depth)

\* The children of a node of the dependency tree.
childrenOf(node) == IF node.dependencies = <<>> THEN <<>> ELSE node.dependencies[1]

RECURSIVE treeHeight(_)

\* The number of edges of the longest path from a node downwards.
treeHeight(node) == IF childrenOf(node) = <<>> THEN 0 ELSE 1 + CHOOSE h \in {treeHeight(childrenOf(node)[i]) : i \in DOMAIN childrenOf(node)} : \A i \in DOMAIN childrenOf(node) : treeHeight(childrenOf(node)[i]) <= h

RECURSIVE circularOnlyAtLeaves(_, _)

\* Below a node with the given ancestors: a node whose name is among its
\* ancestors has no children and carries circular: true, and no other node
\* carries circular: true.
circularOnlyAtLeaves(node, ancestors) == /\ node.name \in ancestors => childrenOf(node) = <<>>
                                         /\ node.circular = <<TRUE>> <=> node.name \in ancestors
                                         /\ \A i \in DOMAIN childrenOf(node) : circularOnlyAtLeaves(childrenOf(node)[i], ancestors \cup {node.name})

RECURSIVE hasCircularLeaf(_)

hasCircularLeaf(node) == node.circular = <<TRUE>> \/ \E i \in DOMAIN childrenOf(node) : hasCircularLeaf(childrenOf(node)[i])

RECURSIVE hasPlainLeaf(_, _)

\* A leaf at the given depth that carries circular: false.
hasPlainLeaf(node, depth) == IF depth = 0 THEN node.circular = <<FALSE>> ELSE \E i \in DOMAIN childrenOf(node) : hasPlainLeaf(childrenOf(node)[i], depth - 1)

\* The latest call returned a dependency tree.
ReturnedTree == lastTool = "find_schema_dependencies" /\ ~lastResult.isError /\ lastResult.text.dependencyTree # <<>>

\* C20: buildDependencyTree ends for every reference graph, self-references
\* and cycles included, and every depth, with a tree no higher than the
\* depth; no name occurs twice on a path from the root except as that
\* path's last node; a leaf carries circular: true exactly when its name is
\* among its ancestors (a leaf at the depth limit or of a missing schema
\* carries circular: false).
C20_TreeEndsAndMarksCycles == ReturnedTree => /\ treeHeight(lastResult.text.dependencyTree[1]) <= lastArgs.depth
                                              /\ circularOnlyAtLeaves(lastResult.text.dependencyTree[1], {})

\* A tree of a cyclic graph: a circular leaf, and a leaf cut at depth 2
\* that carries circular: false.
C20_CycleAndDepthLimitMet == /\ ReturnedTree
                             /\ lastArgs.depth = 2
                             /\ hasCircularLeaf(lastResult.text.dependencyTree[1])
                             /\ hasPlainLeaf(lastResult.text.dependencyTree[1], 2)

\* The latest call was a find_unused_schemas that returned a report.
ReturnedReport == lastTool = "find_unused_schemas" /\ ~lastResult.isError

\* C21: in every find_unused_schemas report the used list and the unused
\* list are disjoint and together are exactly the defined schema names, so
\* that totalSchemas = |used| + |unused| and usagePercentage lies between 0
\* and 100, also when the document has a $ref to a component that is no
\* schema or to a name that is not defined.
C21_UsedAndUnusedPartition == ReturnedReport => /\ lastResult.text.usedSchemas \cap lastResult.text.unusedSchemas = {}
                                                /\ lastResult.text.usedSchemas \cup lastResult.text.unusedSchemas = Keys(schemasOf(currentSpec)[1])
                                                /\ lastResult.text.totalSchemas = Cardinality(lastResult.text.usedSchemas) + Cardinality(lastResult.text.unusedSchemas)
                                                /\ lastResult.text.usagePercentage \in 0..100

(***************************************************************************)
(* Documents for the number bounds of validate_request_examples: one POST  *)
(* operation whose request body has a number or integer schema with or     *)
(* without bounds, at the top, as a property or as the items of an array,  *)
(* and an example with the number v at that place.                         *)
(***************************************************************************)
BoundTypes == {"number", "integer"}

Minimums == {<<>>, <<-2>>, <<0>>, <<3>>}

Maximums == {<<>>, <<0>>, <<4>>}

BoundValues == {-3, 0, 2, 5}

Positions == {"top", "property", "item"}

SchemaAt(position, schema) == CASE position = "top" -> schema [] position = "property" -> ObjectSchema(<<Entry(N_name, schema)>>, <<>>) [] position = "item" -> ArraySchema(schema)

ExampleAt(position, v) == CASE position = "top" -> JsonNumber(v) [] position = "property" -> JsonObject(<<Entry(N_name, JsonNumber(v))>>) [] position = "item" -> JsonArray(<<JsonNumber(v)>>)

\* The path validateExample gives the violations of the value.
PathAt(position) == CASE position = "top" -> <<"request">> [] position = "property" -> <<"request", N_name>> [] position = "item" -> <<"request", IndexName(1)>>

BoundsDocument(t, minimum, maximum, position, v) == ExampleDocument(SchemaAt(position, NumberSchema(t, minimum, maximum)), ExampleAt(position, v), FALSE)

BoundsDocuments == {BoundsDocument(t, minimum, maximum, position, v) : t \in BoundTypes, minimum \in Minimums, maximum \in Maximums, position \in Positions, v \in BoundValues}

NextBounds == \/ \E args \in LoadArgs({Source("value", d) : d \in BoundsDocuments}, {}) : LoadOpenAPISpec(args)
              \/ \E flag \in BOOLEAN : ValidateRequestExamples([endpoint |-> <<>>, strictMode |-> flag])

SpecBounds == Init /\ [][NextBounds]_vars

\* Whether the latest validation reports this violation at this path.
reported(path, error) == \E i \in DOMAIN lastResult.text.results : \E j \in DOMAIN lastResult.text.results[i].errors : lastResult.text.results[i].errors[j] = ValidationError(path, error)

\* The latest call validated the examples of a loaded document.
Validated == lastTool = "validate_request_examples" /\ currentSpec.kind # "null" /\ ~lastResult.isError

\* What the report says of the value v at a position against its bounds.
reportedExactly(minimum, maximum, position, v) == /\ reported(PathAt(position), "Number too small") <=> (minimum # <<>> /\ v < minimum[1])
                                                  /\ reported(PathAt(position), "Number too large") <=> (maximum # <<>> /\ v > maximum[1])

\* C22: for every example value v, at the top, as a property or as an array
\* element, v = 0 included, that is checked against a schema of type number
\* or integer, the validation reports 'too small' at v's path exactly when
\* the schema has a minimum and v < minimum, and 'too large' exactly when it
\* has a maximum and v > maximum.
C22_BoundsReportedExactly == Validated => \A t \in BoundTypes, minimum \in Minimums, maximum \in Maximums, position \in Positions, v \in BoundValues : currentSpec = BoundsDocument(t, minimum, maximum, position, v) => reportedExactly(minimum, maximum, position, v)

(***************************************************************************)
(* Documents for search_request_body_properties: one POST operation whose  *)
(* request body schema reaches the property name of the schema Tag through *)
(* a property that is a Reference, through an inline object, through the   *)
(* items of an array property, through the items of the body schema        *)
(* itself, through allOf, or through a $ref at the top.                    *)
(***************************************************************************)
PropertySchemas == {ObjectSchema(<<Entry(N_id, TypeSchema("integer")), Entry(N_tag, RefSchema(SchemaRef("Tag")))>>, <<N_id>>), ObjectSchema(<<Entry(N_id, TypeSchema("integer")), Entry(N_tag, TagSchema)>>, <<N_tag>>), ObjectSchema(<<Entry(N_tag, ArraySchema(TagSchema))>>, <<>>), ObjectSchema(<<Entry(N_tag, ArraySchema(RefSchema(SchemaRef("Tag"))))>>, <<>>), ArraySchema(TagSchema), [EmptySchema EXCEPT !.allOf = <<RefSchema(SchemaRef("Tag")), ObjectSchema(<<Entry(N_id, TypeSchema("integer"))>>, <<N_id>>)>>], [EmptySchema EXCEPT !.oneOf = <<TagSchema>>, !.anyOf = <<RefSchema(SchemaRef("Missing"))>>], RefSchema(SchemaRef("Tag")), TypeSchema("string")}

PropertyDocument(schema) == ExampleDocument(schema, JsonNull, FALSE)

PropertyDocuments == {PropertyDocument(schema) : schema \in PropertySchemas}

PropertyArgs == {[required |-> required, methods |-> <<>>, propertyName |-> propertyName, propertyType |-> propertyType] : required \in Optional(BOOLEAN), propertyName \in {<<>>, N_name, N_id, <<"A">>}, propertyType \in {"", "string", "object"}}

NextProperties == \/ \E args \in LoadArgs({Source("value", d) : d \in PropertyDocuments}, {}) : LoadOpenAPISpec(args)
                  \/ \E args \in PropertyArgs : SearchRequestBodyProperties(args)

SpecProperties == Init /\ [][NextProperties]_vars

RECURSIVE resolved(_)

\* The schema a Reference stands for; a Reference to no schema is kept.
resolved(schema) == IF schema.ref # NoRef /\ HasKey(schemasOf(currentSpec)[1], refName(schema.ref)) THEN resolved(Lookup(schemasOf(currentSpec)[1], refName(schema.ref))) ELSE schema

RECURSIVE reachableProperties(_)

\* The named properties reachable from a schema through properties, items,
\* oneOf, anyOf, allOf and $ref, each with its name, the type of its schema
\* and whether it is required where it is declared.
reachableProperties(schema) == The({{[name |-> s.properties[i].name, type |-> resolved(s.properties[i].value).type, required |-> has(s.required, s.properties[i].name)] : i \in DOMAIN s.properties} \cup UNION {reachableProperties(child) : child \in Range(schemaChildren(s))} : s \in {resolved(schema)}})

\* The request body schema of the document's operation.
bodySchema == The({body.content[1].value.schema[1] : body \in {Lookup(Lookup(currentSpec.paths[1], P_pets).operations, K_post).requestBody[1]}})

\* The properties the latest search returned, by name and required flag.
returnedProperties == UNION {{[name |-> r.properties[j].propertyName, required |-> r.properties[j].required] : j \in DOMAIN r.properties} : r \in Range(lastResult.text.results)}

\* The reachable properties that pass the filters of the latest search.
expectedProperties == {[name |-> p.name, required |-> p.required] : p \in {q \in reachableProperties(bodySchema) : propertyMatches(lastArgs, q.name, [type |-> q.type], q.required)}}

\* C23: search_request_body_properties considers every named property that
\* is reachable from a request body schema through properties, array items,
\* oneOf, anyOf and allOf members and $ref resolution at any of these places
\* (the nested properties of a property that is a Reference to an object
\* schema included) and returns a property exactly when it passes all the
\* filters given.
C23_EveryReachablePropertySearched == (lastTool = "search_request_body_properties" /\ currentSpec.kind # "null") => returnedProperties = expectedProperties

(***************************************************************************)
(* Documents whose component schemas reach themselves, and the three tools *)
(* that walk the schemas recursively.                                      *)
(***************************************************************************)
\* The schemas object of components: Node is acyclic, reaches itself
\* through the items of a required array property, through a required
\* property that is a Reference, through allOf, or is a $ref to a schema
\* that is a $ref back to it.
CyclicSchemas == {<<Entry("Node", TagSchema)>>, <<Entry("Node", ObjectSchema(<<Entry(N_name, TypeSchema("string")), Entry(N_tag, ArraySchema(RefSchema(SchemaRef("Node"))))>>, <<N_tag>>))>>, <<Entry("Node", ObjectSchema(<<Entry(N_id, TypeSchema("integer")), Entry(N_tag, RefSchema(SchemaRef("Node")))>>, <<N_id, N_tag>>))>>, <<Entry("Node", [EmptySchema EXCEPT !.allOf = <<TagSchema, RefSchema(SchemaRef("Node"))>>])>>, <<Entry("Node", RefSchema(SchemaRef("Back"))), Entry("Back", RefSchema(SchemaRef("Node")))>>}

CyclicExamples == {JsonNull, JsonObject(<<Entry(N_tag, JsonObject(<<>>))>>), JsonObject(<<Entry(N_tag, JsonArray(<<JsonObject(<<Entry(N_name, JsonString(3))>>)>>))>>)}

\* POST /pets with a request body of schema Node.
CyclicDocument(schemas, example) == [ExampleDocument(RefSchema(SchemaRef("Node")), example, FALSE) EXCEPT !.components = <<Components(<<schemas>>, <<>>)>>]

CyclicDocuments == {CyclicDocument(schemas, example) : schemas \in CyclicSchemas, example \in CyclicExamples}

MockArgs == {[endpoint |-> endpoint, format |-> "json", schemaName |-> name, count |-> count] : endpoint \in {<<>>, <<[path |-> P_pets, method |-> K_post]>>}, name \in {"", "Node"}, count \in 0..2}

NextCycles == \/ \E args \in LoadArgs({Source("value", d) : d \in CyclicDocuments}, {}) : LoadOpenAPISpec(args)
              \/ \E args \in PropertyArgs : SearchRequestBodyProperties(args)
              \/ \E flag \in BOOLEAN : ValidateRequestExamples([endpoint |-> <<>>, strictMode |-> flag])
              \/ \E args \in MockArgs : GenerateMockData(args)

SpecCycles == Init /\ [][NextCycles]_vars

\* C24: every query ends on every loaded document, cyclic component schemas
\* included: search_request_body_properties, generate_mock_data and
\* validate_request_examples come to the end of their recursion over the
\* schemas and return what they computed; none of them recurses until the
\* call stack is used up.
C24_QueriesEndOnCyclicSchemas == lastTool \in QueryTools => ~(lastResult.isError /\ lastResult.text = StackMessage)

(***************************************************************************)
(* generate_mock_data on integer schemas with and without bounds.          *)
(***************************************************************************)
MockMinimums == {<<>>, <<-10>>, <<0>>, <<20>>, <<200>>}

MockMaximums == {<<>>, <<0>>, <<60>>}

\* POST /pets with a request body of schema Node, an integer.
MockDocument(minimum, maximum) == CyclicDocument(<<Entry("Node", NumberSchema("integer", minimum, maximum))>>, JsonNull)

MockDocuments == {MockDocument(minimum, maximum) : minimum \in MockMinimums, maximum \in MockMaximums}

NextMock == \/ \E args \in LoadArgs({Source("value", d) : d \in MockDocuments}, {}) : LoadOpenAPISpec(args)
            \/ \E args \in MockArgs : GenerateMockData(args)

SpecMock == Init /\ [][NextMock]_vars

\* The integer schema the values are generated for.
mockedSchema == Lookup(schemasOf(currentSpec)[1], "Node")

GeneratedIntegers == lastTool = "generate_mock_data" /\ ~lastResult.isError /\ lastResult.text.values # <<>>

\* C25: every value generate_mock_data produces for a schema of type integer
\* without example or enum lies between lo and hi, lo being the minimum of
\* the schema (0 when it has none) and hi its maximum (100 when it has
\* none), also when only one bound is given and when a bound is 0.
C25_IntegerWithinBounds == GeneratedIntegers => \A i \in DOMAIN lastResult.text.values : (IF mockedSchema.minimum = <<>> THEN 0 ELSE mockedSchema.minimum[1]) <= lastResult.text.values[i].size /\ lastResult.text.values[i].size <= (IF mockedSchema.maximum = <<>> THEN 100 ELSE mockedSchema.maximum[1])

\* C26: after every load_openapi_spec call, successful or failed, the
\* document the parser holds is the document in currentSpec: a load that
\* fails leaves both as they were.
C26_ParserHoldsCurrentSpec == lastTool = "load_openapi_spec" => parserSpec = currentSpec

\* C27: once a load_openapi_spec call has succeeded, no query tool answers
\* that no specification is loaded, whatever the loaded document holds; a
\* valid document without any operation is answered like any other.
C27_LoadedStaysLoaded == (successfulLoads > 0 /\ lastTool \in QueryTools) => ~(lastResult.isError /\ lastResult.text = NotLoadedMessage)

\* What find_unused_schemas returns for the loaded document when
\* includeIndirectReferences is the opposite of what the last call gave.
reportOtherwise == findUnusedSchemas(currentSpec, [includeIndirectReferences |-> ~lastArgs.includeIndirectReferences]).text

\* C28: find_unused_schemas returns the same used and unused lists with
\* includeIndirectReferences true and false, for every loaded document: the
\* expansion adds no name that the scan of paths and components has not
\* collected.
C28_IndirectFlagChangesNothing == ReturnedReport => (reportOtherwise.usedSchemas = lastResult.text.usedSchemas /\ reportOtherwise.unusedSchemas = lastResult.text.unusedSchemas)

\* includeIndirectReferences true on a document with a used schema that no
\* $ref of the paths names (it is referred to from a component schema only)
\* and with an unused schema.
C28_SchemaUsedThroughComponents == ReturnedReport /\ lastArgs.includeIndirectReferences /\ lastResult.text.unusedSchemas # {} /\ (lastResult.text.usedSchemas \cap Keys(schemasOf(currentSpec)[1])) \ refNames(refsInPaths(currentSpec.paths[1])) # {} /\ refNames(refsInPaths(currentSpec.paths[1])) # {}

(***************************************************************************)
(* Documents whose parameter lists hold References.                        *)
(***************************************************************************)
ReferenceParameters == {<<>>, <<Parameter(N_limit, "query")>>, <<RefParameter(ParameterRef("Limit"))>>, <<Parameter(K_filter, "query"), RefParameter(ParameterRef("Limit"))>>, <<RefParameter(ParameterRef("Limit")), Parameter(N_id, "path")>>}

\* GET /pets with the parameters pathParams on the path item and
\* operationParams on the operation.
ReferenceDocument(summary, pathParams, operationParams) == OpenAPIDocument(TheInfo, <<<<Entry(P_pets, PathItem(pathParams, <<Entry(K_get, [OpGetPet EXCEPT !.summary = summary, !.parameters = operationParams])>>))>>>>, <<>>)

ReferenceDocuments == {ReferenceDocument(summary, pathParams, operationParams) : summary \in {S_getPet, S_searchOrders}, pathParams \in ReferenceParameters, operationParams \in ReferenceParameters}

NextReferences == \E args \in LoadArgs({Source("value", d) : d \in ReferenceDocuments}, {}) : LoadOpenAPISpec(args)

SpecReferences == Init /\ [][NextReferences]_vars

\* The parameters of the path item and of the operation of the document
\* the last call was given.
givenParameters == loadedDocument.paths[1][1].value.parameters \o loadedDocument.paths[1][1].value.operations[1].value.parameters

GivenReference == lastTool = "load_openapi_spec" /\ \E i \in DOMAIN givenParameters : givenParameters[i].ref # NoRef

\* C29: loading a document in which a path item or an operation lists a
\* parameter as a Reference succeeds, and the endpoint record has the
\* Reference in its parameters: those of the path item first, then those of
\* the operation, none removed.
C29_ReferenceParameterKept == GivenReference => (~lastResult.isError /\ Len(currentEndpoints) = 1 /\ currentEndpoints[1].parameters = givenParameters)

(***************************************************************************)
(* Overlapping load_openapi_spec calls of the HTTP server, among them      *)
(* loads that fail after the content was parsed and loads whose endpoint   *)
(* extraction throws.                                                      *)
(***************************************************************************)
OverlapTexts == {Unparseable, Source("value", NullSpec), Source("value", DocPets), Source("value", DocRefParameter)}

OverlapUrls == {Fetched("failed", Unparseable), Fetched("ok", Source("value", DocOrders)), Fetched("ok", Source("value", DocNoVersion)), Fetched("ok", Source("value", DocNoResponses))}

NextOverlap == \/ \E args \in LoadArgs(OverlapTexts, {}) : HttpLoadText(args)
               \/ \E args \in LoadArgs({}, OverlapUrls) : HttpStartFetch(args)
               \/ \E args \in pending : HttpFinishFetch(args)

SpecOverlap == Init /\ [][NextOverlap]_vars

\* C30: in the HTTP server, however two or more load_openapi_spec calls
\* interleave, once all of them have completed currentEndpoints is the
\* list of endpoints extracted from the document in currentSpec.
C30_EndpointsOfCurrentSpec == (pending = {} /\ lastTool = "load_openapi_spec") => (~extractEndpoints(currentSpec).threw /\ currentEndpoints = extractEndpoints(currentSpec).value)

====
